---- MODULE Spec2Model ----
(***************************************************************************)
(* Model of the text-editing core of fusang: editor-core-text's TextModel  *)
(* (a rope behind a lock, with a version counter), Cursor, Selection and   *)
(* Buffer (multi-cursor insert/delete, coalescing undo/redo history with a *)
(* byte budget).                                                           *)
(*                                                                         *)
(* Text is a sequence of one-character strings; indices handed to the      *)
(* TextModel are 0-based char indices as in the source, so rope[i+1] is    *)
(* the char at index i.  Selection indices stored in edits are 0-based as  *)
(* in the source.                                                          *)
(***************************************************************************)
EXTENDS Integers, Sequences, FiniteSets, TLC

VARIABLES
    text_model,        \* [rope, version]: TextModel's rope and version counter
    cursors,           \* Buffer.cursors
    selections,        \* Buffer.selections
    is_dirty,          \* Buffer.is_dirty
    undo_stack,        \* Buffer.undo_stack (bottom first)
    redo_stack,        \* Buffer.redo_stack (bottom first)
    undo_stack_cost,   \* Buffer.undo_stack_cost
    now,               \* the monotonic clock read by Instant::now(), in ms
    inputs,            \* the texts the caller may pass to insert_text_at_cursor
    budget,            \* [ops, ticks, moves]: calls still allowed to the bounded run
    last,              \* history variable: the last call, its argument, its result
                       \* and, for insert/delete/undo/redo, the state it was made in
    task,              \* the Buffer call in flight when its TextModel calls are
                       \* taken one lock acquisition at a time, or NoTask
    clean_text,        \* history variable: the text at the last mark_clean(), or at
                       \* construction when mark_clean() was never called
    manager,           \* BufferManager: its two locks and the calls on it in flight
    lsp                \* LspClient: pending_requests, the server's pipe, the calls

vars == <<text_model, cursors, selections, is_dirty, undo_stack, redo_stack,
          undo_stack_cost, now, inputs, budget, last, task,
          clean_text, manager, lsp>>

-----------------------------------------------------------------------------
(* Bounds of the model *)

\* calls to insert/delete/undo/redo in one run
MaxOps == 5
\* advances of the clock in one run
MaxTicks == 2
\* calls to set_cursor/add_cursor/set_selection in one run
MaxMoves == 1
\* add_cursor is offered while the cursor list is shorter than this
MaxCursors == 2
\* TextModel calls in a run of the TextModel on its own
MaxStoreOps == 2
\* Chars a text of such a run may hold
MaxStoreLen == 4

-----------------------------------------------------------------------------
(* Program constants *)

\* COALESCE_WINDOW, in ms
COALESCE_WINDOW == 750
\* UNDO_STACK_BUDGET_BYTES = 5 * 1024 * 1024
UNDO_STACK_BUDGET_BYTES == 5242880
\* size_of::<Cursor>() on a 64-bit target: two usize
SizeOfCursor == 16
\* size_of::<Selection>() on a 64-bit target: two Cursor
SizeOfSelection == 32

-----------------------------------------------------------------------------
(* Generic helpers *)

NL == "\n"

Min(a, b) == IF a <= b THEN a ELSE b
Max(a, b) == IF a >= b THEN a ELSE b

\* usize::saturating_sub
saturating_sub(a, b) == IF a >= b THEN a - b ELSE 0

Last(s) == s[Len(s)]
Front(s) == SubSeq(s, 1, Len(s) - 1)

RECURSIVE SumSeq(_)
SumSeq(s) == IF s = <<>> THEN 0 ELSE Head(s) + SumSeq(Tail(s))

RECURSIVE Concat(_)
Concat(ss) == IF ss = <<>> THEN <<>> ELSE Head(ss) \o Concat(Tail(ss))

\* s with the element at 0-based index i replaced by v, when i is in range
\* (Vec::get_mut(i) followed by an assignment)
SetAt(s, i, v) == IF i < Len(s) THEN [s EXCEPT ![i + 1] = v] ELSE s

\* slice::sort_by on start_char_idx, ascending; the sort is stable
sort_by_start_asc(s) ==
    LET n == Len(s)
        rank(i) == Cardinality({j \in 1..n : s[j].start_char_idx < s[i].start_char_idx})
                   + Cardinality({j \in 1..i : s[j].start_char_idx = s[i].start_char_idx})
    IN [p \in 1..n |-> s[CHOOSE i \in 1..n : rank(i) = p]]

\* slice::sort_by on start_char_idx, descending (b.cmp(a)); the sort is stable
sort_by_start_desc(s) ==
    LET n == Len(s)
        rank(i) == Cardinality({j \in 1..n : s[j].start_char_idx > s[i].start_char_idx})
                   + Cardinality({j \in 1..i : s[j].start_char_idx = s[i].start_char_idx})
    IN [p \in 1..n |-> s[CHOOSE i \in 1..n : rank(i) = p]]

-----------------------------------------------------------------------------
(* Cursor and Selection *)

Cursor(l, c) == [line |-> l, column |-> c]
Cursor_zero == Cursor(0, 0)

Selection_single(c) == [anchor |-> c, active |-> c]
Selection_range(s, e) == [anchor |-> s, active |-> e]

is_collapsed(sel) == sel.anchor = sel.active

Selection_start(sel) ==
    IF sel.anchor.line < sel.active.line
       \/ (sel.anchor.line = sel.active.line /\ sel.anchor.column <= sel.active.column)
    THEN sel.anchor ELSE sel.active

Selection_end(sel) ==
    IF sel.anchor.line > sel.active.line
       \/ (sel.anchor.line = sel.active.line /\ sel.anchor.column > sel.active.column)
    THEN sel.anchor ELSE sel.active

-----------------------------------------------------------------------------
(* The rope (ropey::Rope), for texts whose only line break is "\n" *)

len_chars(rope) == Len(rope)

CountBreaks(rope) == Cardinality({i \in 1..Len(rope) : rope[i] = NL})

\* Rope::len_lines: the number of line breaks plus one
len_lines(rope) == CountBreaks(rope) + 1

\* Rope::line_to_char: the char index of the first char of line l; the char
\* count for l = len_lines.  (For l > len_lines ropey panics: see Aborts.)
line_to_char(rope, l) ==
    IF l = 0 THEN 0
    ELSE IF l <= CountBreaks(rope)
         THEN CHOOSE i \in 1..Len(rope) :
                  /\ rope[i] = NL
                  /\ Cardinality({j \in 1..i : rope[j] = NL}) = l
         ELSE Len(rope)

\* Rope::line(l) as a string: the line with its line break, if it has one
rope_line(rope, l) == SubSeq(rope, line_to_char(rope, l) + 1, line_to_char(rope, l + 1))

-----------------------------------------------------------------------------
(* TextModel *)

TextModel_from_str(t) == [rope |-> t, version |-> 0]

TextModel_insert(tm, char_idx, t) ==
    IF char_idx <= len_chars(tm.rope)
    THEN [rope |-> SubSeq(tm.rope, 1, char_idx) \o t
                   \o SubSeq(tm.rope, char_idx + 1, Len(tm.rope)),
          version |-> tm.version + 1]
    ELSE tm

\* A remove that forgets the version
TextModel_remove_unversioned(tm, char_idx, len) ==
    IF char_idx < len_chars(tm.rope)
    THEN LET end_idx == Min(char_idx + len, len_chars(tm.rope))
         IN [rope |-> SubSeq(tm.rope, 1, char_idx)
                      \o SubSeq(tm.rope, end_idx + 1, Len(tm.rope)),
             version |-> tm.version]
    ELSE tm

\* A remove that also acts at the end of the text
TextModel_remove_at_end(tm, char_idx, len) ==
    IF char_idx <= len_chars(tm.rope)
    THEN LET end_idx == Min(char_idx + len, len_chars(tm.rope))
         IN [rope |-> SubSeq(tm.rope, 1, char_idx)
                      \o SubSeq(tm.rope, end_idx + 1, Len(tm.rope)),
             version |-> tm.version + 1]
    ELSE tm

TextModel_remove(tm, char_idx, len) ==
    IF char_idx < len_chars(tm.rope)
    THEN LET end_idx == Min(char_idx + len, len_chars(tm.rope))
         IN [rope |-> SubSeq(tm.rope, 1, char_idx)
                      \o SubSeq(tm.rope, end_idx + 1, Len(tm.rope)),
             version |-> tm.version + 1]
    ELSE tm

TextModel_replace(tm, char_idx, len, t) ==
    IF char_idx < len_chars(tm.rope)
    THEN LET end_idx == Min(char_idx + len, len_chars(tm.rope))
         IN [rope |-> SubSeq(tm.rope, 1, char_idx) \o t
                      \o SubSeq(tm.rope, end_idx + 1, Len(tm.rope)),
             version |-> tm.version + 1]
    ELSE tm

\* TextModel::get_line: Some(line with its line break) or None
get_line_is_some(tm, line_idx) == line_idx < len_lines(tm.rope)
get_line(tm, line_idx) == rope_line(tm.rope, line_idx)

\* TextModel::get_text_range(start, end): the chars of the half-open char
\* range [start, end), the range clamped to the text.
get_text_range(tm, start_idx, end_idx) ==
    SubSeq(tm.rope, start_idx + 1, Min(end_idx, len_chars(tm.rope)))

-----------------------------------------------------------------------------
(* UndoRecord.  An Insert record is                                        *)
(*   [kind |-> "Insert", edits (ReplaceEdit: start_char_idx, replaced_text),*)
(*    inserted_texts, before_cursors, before_selections, after_cursors,    *)
(*    after_selections, timestamp]                                         *)
(* and a Delete record is                                                  *)
(*   [kind |-> "Delete", edits (DeleteEdit: index, start_char_idx, len,    *)
(*    new_cursor, deleted_text), before_cursors, ..., timestamp].          *)
(* Each record also carries three history fields the program does not have:*)
(*   g_before  the text before the first call the record stands for,       *)
(*   g_after   the text after the last call the record stands for,         *)
(*   g_calls   those calls, in order, as [op, arg, at, carets, collapsed,   *)
(*             starts]: the call, its text, its time, the number of        *)
(*             selections it found, whether all of them were collapsed,    *)
(*             and the start_char_idx of each edit it made.                *)

\* String::len of an ASCII text: its byte count is its char count
byte_len(t) == Len(t)

cost(record) ==
    IF record.kind = "Insert"
    THEN SumSeq([i \in 1..Len(record.edits) |-> byte_len(record.edits[i].replaced_text)])
         + SumSeq([i \in 1..Len(record.inserted_texts) |-> byte_len(record.inserted_texts[i])])
         + Len(record.before_cursors) * SizeOfCursor
         + Len(record.before_selections) * SizeOfSelection
         + Len(record.after_cursors) * SizeOfCursor
         + Len(record.after_selections) * SizeOfSelection
    ELSE SumSeq([i \in 1..Len(record.edits) |-> byte_len(record.edits[i].deleted_text)])
         + Len(record.before_cursors) * SizeOfCursor
         + Len(record.before_selections) * SizeOfSelection
         + Len(record.after_cursors) * SizeOfCursor
         + Len(record.after_selections) * SizeOfSelection

\* A test that lets replacements through
pure_insertions_unchecked(edit_a, edit_b) == TRUE

\* Neither edit of the pair replaced text: both replaced_text are empty
pure_insertions(edit_a, edit_b) ==
    edit_a.replaced_text = <<>> /\ edit_b.replaced_text = <<>>

\* A compatibility loop that forgets the length of a's inserted text
insert_pairs_same_start(a, b) ==
    \A i \in 1..Len(a.edits) :
        /\ pure_insertions(a.edits[i], b.edits[i])
        /\ b.edits[i].start_char_idx = a.edits[i].start_char_idx

\* The Insert arm's compatibility loop: every pair is a pure insertion and
\* b starts where a's inserted text ends
insert_pairs_contiguous(a, b) ==
    \A i \in 1..Len(a.edits) :
        /\ pure_insertions(a.edits[i], b.edits[i])
        /\ b.edits[i].start_char_idx = a.edits[i].start_char_idx + Len(a.inserted_texts[i])

\* A backward merge that appends the new text instead of prepending it
merge_backward_appending(edit_a, edit_b) ==
    [edit_a EXCEPT !.start_char_idx = edit_b.start_char_idx,
                   !.len = edit_a.len + edit_b.len,
                   !.deleted_text = edit_a.deleted_text \o edit_b.deleted_text,
                   !.new_cursor = edit_b.new_cursor]

\* MergeDir::Backward: edit_b ends where edit_a starts
merge_backward(edit_a, edit_b) ==
    [edit_a EXCEPT !.start_char_idx = edit_b.start_char_idx,
                   !.len = edit_a.len + edit_b.len,
                   !.deleted_text = edit_b.deleted_text \o edit_a.deleted_text,
                   !.new_cursor = edit_b.new_cursor]

\* MergeDir::Forward: edit_b starts where edit_a ends
merge_forward(edit_a, edit_b) ==
    [edit_a EXCEPT !.len = edit_a.len + edit_b.len,
                   !.deleted_text = edit_a.deleted_text \o edit_b.deleted_text,
                   !.new_cursor = edit_b.new_cursor]

\* A direction test that takes a pair that is not adjacent for a forward one
pair_direction_lenient(start_a, end_a, start_b, end_b) ==
    IF end_b = start_a THEN "Backward" ELSE "Forward"

\* current_dir of a pair: Backward when b ends where a starts, Forward when a
\* ends where b starts, "None" (return false) otherwise
pair_direction(start_a, end_a, start_b, end_b) ==
    IF end_b = start_a THEN "Backward"
    ELSE IF end_a = start_b THEN "Forward"
    ELSE "None"

\* The Delete arm's loop over edits_a.iter_mut().zip(edits_b): it rewrites
\* edits_a pair by pair and returns false at the first pair that does not fit,
\* leaving the pairs before it rewritten.  direction is "None", "Backward" or
\* "Forward".  The result is [ok, edits].
RECURSIVE merge_delete_pairs(_, _, _, _)
merge_delete_pairs(edits_a, edits_b, i, direction) ==
    IF i > Len(edits_a) THEN [ok |-> TRUE, edits |-> edits_a]
    ELSE
    LET edit_a == edits_a[i]
        edit_b == edits_b[i]
        start_a == edit_a.start_char_idx
        end_a == edit_a.start_char_idx + edit_a.len
        start_b == edit_b.start_char_idx
        end_b == edit_b.start_char_idx + edit_b.len
        current_dir == pair_direction(start_a, end_a, start_b, end_b)
        merged_edit == IF current_dir = "Backward"
                       THEN merge_backward(edit_a, edit_b)
                       ELSE merge_forward(edit_a, edit_b)
    IN IF edit_a.index # edit_b.index THEN [ok |-> FALSE, edits |-> edits_a]
       ELSE IF current_dir = "None" THEN [ok |-> FALSE, edits |-> edits_a]
       ELSE IF direction # "None" /\ direction # current_dir
            THEN [ok |-> FALSE, edits |-> edits_a]
       ELSE merge_delete_pairs([edits_a EXCEPT ![i] = merged_edit], edits_b, i + 1,
                               current_dir)

\* A merge step that takes over the timestamp of the record merged in
merged_timestamp_latest(self, other) == other.timestamp

\* The merge steps assign the texts or edits and the after lists and leave
\* self's timestamp field as it is
merged_timestamp(self, other) == self.timestamp

\* UndoRecord::try_merge(&mut self, other): [ok, rec], rec being self afterwards
try_merge(self, other) ==
    IF self.kind = "Insert"
    THEN IF other.kind = "Insert"
         THEN IF \/ Len(self.edits) # Len(other.edits)
                 \/ Len(self.inserted_texts) # Len(self.edits)
                 \/ Len(other.inserted_texts) # Len(other.edits)
              THEN [ok |-> FALSE, rec |-> self]
              ELSE IF ~insert_pairs_contiguous(self, other)
              THEN [ok |-> FALSE, rec |-> self]
              ELSE [ok |-> TRUE,
                    rec |-> [self EXCEPT
                        !.inserted_texts = [i \in 1..Len(self.inserted_texts) |->
                            self.inserted_texts[i] \o other.inserted_texts[i]],
                        !.after_cursors = other.after_cursors,
                        !.after_selections = other.after_selections,
                        !.timestamp = merged_timestamp(self, other),
                        !.g_after = other.g_after,
                        !.g_calls = self.g_calls \o other.g_calls]]
         ELSE [ok |-> FALSE, rec |-> self]
    ELSE IF other.kind = "Delete"
         THEN IF Len(self.edits) # Len(other.edits)
              THEN [ok |-> FALSE, rec |-> self]
              ELSE LET m == merge_delete_pairs(self.edits, other.edits, 1, "None")
                   IN IF m.ok
                      THEN [ok |-> TRUE,
                            rec |-> [self EXCEPT
                                !.edits = m.edits,
                                !.after_cursors = other.after_cursors,
                                !.after_selections = other.after_selections,
                                !.timestamp = merged_timestamp(self, other),
                                !.g_after = other.g_after,
                                !.g_calls = self.g_calls \o other.g_calls]]
                      ELSE [ok |-> FALSE, rec |-> [self EXCEPT !.edits = m.edits]]
         ELSE [ok |-> FALSE, rec |-> self]

-----------------------------------------------------------------------------
(* The history engine.  h is the part of the Buffer it works on:           *)
(* [undo_stack, redo_stack, undo_stack_cost, is_dirty].                    *)

RECURSIVE trim_loop(_)
trim_loop(h) ==
    IF h.undo_stack_cost > UNDO_STACK_BUDGET_BYTES /\ h.undo_stack # <<>>
    THEN trim_loop([h EXCEPT
            !.undo_stack = Tail(h.undo_stack),
            !.undo_stack_cost = saturating_sub(h.undo_stack_cost, cost(Head(h.undo_stack)))])
    ELSE h

trim_undo_stack(h) ==
    LET t == trim_loop(h)
    IN IF t.undo_stack = <<>> THEN [t EXCEPT !.is_dirty = FALSE] ELSE t

push_undo_record_inner(h, record) ==
    trim_undo_stack([h EXCEPT
        !.undo_stack_cost = h.undo_stack_cost + cost(record),
        !.undo_stack = Append(h.undo_stack, record)])

\* A window test without the window
within_any_delay(later, earlier) == later >= earlier

\* A commit that leaves the redo stack as it is
keep_redo(h) == h

\* self.redo_stack.clear()
clear_redo(h) == [h EXCEPT !.redo_stack = <<>>]

\* Instant::checked_duration_since(earlier) is Some(later - earlier) when
\* later >= earlier; within_window is the test delta <= COALESCE_WINDOW on it
within_window(later, earlier) ==
    later >= earlier /\ later - earlier <= COALESCE_WINDOW

record_operation(h, operation) ==
    LET attempt == h.undo_stack # <<>>
                   /\ within_window(operation.timestamp, Last(h.undo_stack).timestamp)
        top == Last(h.undo_stack)
        m == try_merge(top, operation)
        \* last.try_merge works on the stack's entry in place, merged or not
        h1 == IF attempt
              THEN [h EXCEPT !.undo_stack = Append(Front(h.undo_stack), m.rec)]
              ELSE h
        merged == attempt /\ m.ok
        h2 == IF merged
              THEN trim_undo_stack([h1 EXCEPT !.undo_stack_cost =
                       saturating_sub(h1.undo_stack_cost, cost(top)) + cost(m.rec)])
              ELSE push_undo_record_inner(h1, operation)
    IN clear_redo(h2)

-----------------------------------------------------------------------------
(* Buffer.  The operators below work on a value                            *)
(*   b = [tm, cursors, selections, is_dirty, undo_stack, redo_stack,       *)
(*        undo_stack_cost]                                                 *)
(* and return the Buffer after the call.                                   *)

history_of(b) == [undo_stack |-> b.undo_stack, redo_stack |-> b.redo_stack,
                  undo_stack_cost |-> b.undo_stack_cost, is_dirty |-> b.is_dirty]

with_history(b, h) == [b EXCEPT !.undo_stack = h.undo_stack,
                                !.redo_stack = h.redo_stack,
                                !.undo_stack_cost = h.undo_stack_cost,
                                !.is_dirty = h.is_dirty]

\* Buffer::cursor_char_index, and the same sum where the source writes it out
cursor_char_index(tm, cursor) == line_to_char(tm.rope, cursor.line) + cursor.column

\* The SelectionEdit the first loop of insert_text_at_cursor builds for the
\* selection at 0-based index
selection_edit(tm, index, selection) ==
    LET collapsed == is_collapsed(selection)
        start_char_idx == cursor_char_index(tm, Selection_start(selection))
        end_char_idx == IF collapsed THEN start_char_idx
                        ELSE cursor_char_index(tm, Selection_end(selection))
    IN [index |-> index,
        start_char_idx |-> start_char_idx,
        end_char_idx |-> end_char_idx,
        collapsed |-> collapsed,
        replaced_text |-> IF end_char_idx > start_char_idx
                          THEN get_text_range(tm, start_char_idx, end_char_idx)
                          ELSE <<>>]

\* A normalising test that never finds an overlap
starts_inside_never(edit, last_kept) == FALSE

\* The normalising loop's test: edit starts before the last kept edit ends
starts_inside(edit, last_kept) == edit.start_char_idx < last_kept.end_char_idx

\* The normalising loop of insert_text_at_cursor over the edits sorted by
\* start: an edit that starts before the last kept edit ends is folded into it
RECURSIVE normalize_edits(_, _, _, _)
normalize_edits(tm, edits, i, normalized) ==
    IF i > Len(edits) THEN normalized
    ELSE LET edit == edits[i]
             last_kept == Last(normalized)
             new_end == Max(last_kept.end_char_idx, edit.end_char_idx)
         IN IF normalized # <<>> /\ starts_inside(edit, last_kept)
            THEN normalize_edits(tm, edits, i + 1,
                     Append(Front(normalized),
                            [last_kept EXCEPT
                                !.end_char_idx = new_end,
                                !.collapsed = FALSE,
                                !.replaced_text =
                                    get_text_range(tm, last_kept.start_char_idx, new_end)]))
            ELSE normalize_edits(tm, edits, i + 1, Append(normalized, edit))

\* The applying loop of insert_text_at_cursor
RECURSIVE apply_insert_edits(_, _, _, _)
apply_insert_edits(tm, edits, i, t) ==
    IF i > Len(edits) THEN tm
    ELSE LET edit == edits[i]
             tm1 == IF edit.collapsed
                    THEN TextModel_insert(tm, edit.start_char_idx, t)
                    ELSE TextModel_replace(tm, edit.start_char_idx,
                             saturating_sub(edit.end_char_idx, edit.start_char_idx), t)
         IN apply_insert_edits(tm1, edits, i + 1, t)

\* The counting loop of update_cursors_after_insert
newline_count(t) == Cardinality({i \in 1..Len(t) : t[i] = NL})
last_line_len(t) ==
    IF newline_count(t) = 0 THEN Len(t)
    ELSE Len(t) - (CHOOSE i \in 1..Len(t) : t[i] = NL /\ \A j \in (i + 1)..Len(t) : t[j] # NL)

\* A caret after line breaks that keeps counting from the old column
caret_after_breaks_from_column(c, inserted_text) ==
    Cursor(c.line + newline_count(inserted_text), c.column + last_line_len(inserted_text))

\* The caret after a text with line breaks, inserted at c
caret_after_breaks(c, inserted_text) ==
    Cursor(c.line + newline_count(inserted_text), last_line_len(inserted_text))

\* The caret update_cursors_after_insert computes for one selection
caret_after_insert(selection, inserted_text) ==
    LET c == IF is_collapsed(selection) THEN selection.active ELSE Selection_start(selection)
    IN IF newline_count(inserted_text) = 0
       THEN Cursor(c.line, c.column + Len(inserted_text))
       ELSE caret_after_breaks(c, inserted_text)

\* update_cursors_after_insert: [cursors, selections] afterwards
update_cursors_after_insert(b, affected_indices, inserted_text) ==
    LET hit(i) == /\ \E k \in 1..Len(affected_indices) : affected_indices[k] = i - 1
                  /\ i - 1 < Len(b.selections)
                  /\ i - 1 < Len(b.cursors)
    IN [cursors |-> [i \in 1..Len(b.cursors) |->
                        IF hit(i) THEN caret_after_insert(b.selections[i], inserted_text)
                        ELSE b.cursors[i]],
        selections |-> [i \in 1..Len(b.selections) |->
                        IF hit(i)
                        THEN Selection_single(caret_after_insert(b.selections[i], inserted_text))
                        ELSE b.selections[i]]]

\* insert_text_at_cursor panics inside Rope::line_to_char when a selection
\* names a line past len_lines
insert_aborts(b) ==
    \E i \in 1..Len(b.selections) :
        \/ Selection_start(b.selections[i]).line > len_lines(b.tm.rope)
        \/ Selection_end(b.selections[i]).line > len_lines(b.tm.rope)

\* An applying order from the start of the buffer
insert_order_ascending(edits) == sort_by_start_asc(edits)

\* normalized.sort_by(|a, b| b.start_char_idx.cmp(&a.start_char_idx)): the
\* edits are applied from the end of the buffer
insert_order(edits) == sort_by_start_desc(edits)

\* An early return that looks at the selections only
insert_returns_without_selections(b, t) == b.selections = <<>>

\* The two early returns of insert_text_at_cursor
insert_returns_early(b, t) == b.selections = <<>> \/ t = <<>>

\* Buffer::insert_text_at_cursor(text), Instant::now() reading timestamp
insert_text_at_cursor(b, t, timestamp) ==
    IF insert_returns_early(b, t) THEN b
    ELSE
    LET edits == [i \in 1..Len(b.selections) |-> selection_edit(b.tm, i - 1, b.selections[i])]
        touched_indices == [i \in 1..Len(edits) |-> edits[i].index]
        normalized == insert_order(
                          normalize_edits(b.tm, sort_by_start_asc(edits), 1, <<>>))
        tm1 == apply_insert_edits(b.tm, normalized, 1, t)
        moved == update_cursors_after_insert(b, touched_indices, t)
        record == [kind |-> "Insert",
                   edits |-> [i \in 1..Len(normalized) |->
                                 [start_char_idx |-> normalized[i].start_char_idx,
                                  replaced_text |-> normalized[i].replaced_text]],
                   inserted_texts |-> [i \in 1..Len(normalized) |-> t],
                   before_cursors |-> b.cursors,
                   before_selections |-> b.selections,
                   after_cursors |-> moved.cursors,
                   after_selections |-> moved.selections,
                   timestamp |-> timestamp,
                   g_before |-> b.tm.rope,
                   g_after |-> tm1.rope,
                   g_calls |-> <<[op |-> "insert", arg |-> t, at |-> timestamp,
                                  carets |-> Len(b.selections),
                                  collapsed |-> \A i \in 1..Len(b.selections) :
                                                    is_collapsed(b.selections[i]),
                                  starts |-> [i \in 1..Len(normalized) |->
                                                 normalized[i].start_char_idx]]>>]
        b1 == [b EXCEPT !.tm = tm1, !.is_dirty = TRUE,
                        !.cursors = moved.cursors, !.selections = moved.selections]
    IN with_history(b1, record_operation(history_of(b1), record))

-----------------------------------------------------------------------------
(* delete_backward / delete_forward *)

\* chars().count() of get_line(line_idx), or 0 when get_line is None: the
\* count includes the line's line break
line_chars_or_zero(tm, line_idx) ==
    IF get_line_is_some(tm, line_idx) THEN Len(get_line(tm, line_idx)) ELSE 0

\* A forward delete that moves its caret one column right
forward_caret_advanced(cursor) == Cursor(cursor.line, cursor.column + 1)

\* new_cursor of a forward delete: the caret stays where it is
forward_caret(cursor) == cursor

\* A last-line test that takes every line to have a successor
line_follows_always(tm, cursor) == TRUE

\* cursor.line + 1 < total_lines: the caret's line is not the last line
line_follows(tm, cursor) == cursor.line + 1 < len_lines(tm.rope)

\* build_collapsed_delete_edit: the Option as a sequence of zero or one edit
build_collapsed_delete_edit(tm, index, cursor, direction) ==
    IF direction = "Backward"
    THEN IF cursor.column > 0
         THEN LET char_idx == line_to_char(tm.rope, cursor.line) + cursor.column
              IN << [index |-> index,
                     start_char_idx |-> char_idx - 1,
                     len |-> 1,
                     new_cursor |-> Cursor(cursor.line, cursor.column - 1),
                     deleted_text |-> get_text_range(tm, char_idx - 1, char_idx)] >>
         ELSE IF cursor.line > 0
         THEN LET line_start == line_to_char(tm.rope, cursor.line)
                  prev_line_length == line_chars_or_zero(tm, cursor.line - 1)
              IN IF line_start = 0 THEN <<>>
                 ELSE << [index |-> index,
                          start_char_idx |-> line_start - 1,
                          len |-> 1,
                          new_cursor |-> Cursor(cursor.line - 1, prev_line_length),
                          deleted_text |-> get_text_range(tm, line_start - 1, line_start)] >>
         ELSE <<>>
    ELSE LET current_line_length == line_chars_or_zero(tm, cursor.line)
             char_idx == line_to_char(tm.rope, cursor.line) + cursor.column
             edit == [index |-> index,
                      start_char_idx |-> char_idx,
                      len |-> 1,
                      new_cursor |-> forward_caret(cursor),
                      deleted_text |-> get_text_range(tm, char_idx, char_idx + 1)]
         IN IF cursor.column < current_line_length THEN << edit >>
            ELSE IF line_follows(tm, cursor) THEN << edit >>
            ELSE <<>>

\* The edit collect_delete_edits builds for one selection: zero or one edit
delete_edit_of(tm, index, selection, direction) ==
    IF is_collapsed(selection)
    THEN build_collapsed_delete_edit(tm, index, selection.active, direction)
    ELSE LET start == Selection_start(selection)
             start_char_idx == cursor_char_index(tm, start)
             end_char_idx == cursor_char_index(tm, Selection_end(selection))
         IN IF end_char_idx > start_char_idx
            THEN << [index |-> index,
                     start_char_idx |-> start_char_idx,
                     len |-> end_char_idx - start_char_idx,
                     new_cursor |-> start,
                     deleted_text |-> get_text_range(tm, start_char_idx, end_char_idx)] >>
            ELSE <<>>

collect_delete_edits(b, direction) ==
    IF b.selections = <<>> THEN <<>>
    ELSE Concat([i \in 1..Len(b.selections) |->
                    delete_edit_of(b.tm, i - 1, b.selections[i], direction)])

\* collect_delete_edits panics inside Rope::line_to_char when it converts a
\* line past len_lines; a backward delete at (0, 0) converts nothing
delete_aborts(b, direction) ==
    \E i \in 1..Len(b.selections) :
        LET sel == b.selections[i]
        IN IF is_collapsed(sel)
           THEN /\ sel.active.line > len_lines(b.tm.rope)
                /\ (direction = "Forward" \/ sel.active.column > 0 \/ sel.active.line > 0)
           ELSE \/ Selection_start(sel).line > len_lines(b.tm.rope)
                \/ Selection_end(sel).line > len_lines(b.tm.rope)

RECURSIVE remove_edits(_, _, _)
remove_edits(tm, edits, i) ==
    IF i > Len(edits) THEN tm
    ELSE remove_edits(TextModel_remove(tm, edits[i].start_char_idx, edits[i].len),
                      edits, i + 1)

RECURSIVE place_carets(_, _, _)
place_carets(cs, edits, i) ==
    IF i > Len(edits) THEN cs
    ELSE place_carets(
             [cursors |-> SetAt(cs.cursors, edits[i].index, edits[i].new_cursor),
              selections |-> SetAt(cs.selections, edits[i].index,
                                   Selection_single(edits[i].new_cursor))],
             edits, i + 1)

\* A removal order from the start of the buffer
delete_order_ascending(edits) == sort_by_start_asc(edits)

\* apply_delete_edits sorts the edits from the end of the buffer
delete_order(edits) == sort_by_start_desc(edits)

\* Buffer::apply_delete_edits
apply_delete_edits(b, edits) ==
    IF edits = <<>> THEN b
    ELSE LET ordered == delete_order(edits)
             cs == place_carets([cursors |-> b.cursors, selections |-> b.selections],
                                ordered, 1)
         IN [b EXCEPT !.tm = remove_edits(b.tm, ordered, 1),
                      !.is_dirty = TRUE,
                      !.cursors = cs.cursors,
                      !.selections = cs.selections]

\* Buffer::delete_backward and Buffer::delete_forward share this body; op is
\* the call's name, kept in the record's history fields only
delete_in_direction(b, direction, op, timestamp) ==
    LET edits == collect_delete_edits(b, direction)
        b1 == apply_delete_edits(b, edits)
        record == [kind |-> "Delete",
                   edits |-> edits,
                   before_cursors |-> b.cursors,
                   before_selections |-> b.selections,
                   after_cursors |-> b1.cursors,
                   after_selections |-> b1.selections,
                   timestamp |-> timestamp,
                   g_before |-> b.tm.rope,
                   g_after |-> b1.tm.rope,
                   g_calls |-> <<[op |-> op, arg |-> <<>>, at |-> timestamp,
                                  carets |-> Len(b.selections),
                                  collapsed |-> \A i \in 1..Len(b.selections) :
                                                    is_collapsed(b.selections[i]),
                                  starts |-> [i \in 1..Len(edits) |->
                                                 edits[i].start_char_idx]]>>]
    IN IF edits = <<>> THEN b
       ELSE with_history(b1, record_operation(history_of(b1), record))

delete_backward(b, timestamp) == delete_in_direction(b, "Backward", "delete_backward", timestamp)
delete_forward(b, timestamp) == delete_in_direction(b, "Forward", "delete_forward", timestamp)

-----------------------------------------------------------------------------
(* undo / redo *)

\* The Insert arm's loop of apply_undo over (edit, inserted) pairs
RECURSIVE undo_insert_edits(_, _, _)
undo_insert_edits(tm, ordered, i) ==
    IF i > Len(ordered) THEN tm
    ELSE LET edit == ordered[i]
             inserted_len == Len(edit.inserted)
             tm1 == IF inserted_len > 0
                    THEN TextModel_remove(tm, edit.start_char_idx, inserted_len)
                    ELSE tm
             tm2 == IF edit.replaced_text # <<>>
                    THEN TextModel_insert(tm1, edit.start_char_idx, edit.replaced_text)
                    ELSE tm1
         IN undo_insert_edits(tm2, ordered, i + 1)

\* The Delete arm's loop of apply_undo
RECURSIVE undo_delete_edits(_, _, _)
undo_delete_edits(tm, ordered, i) ==
    IF i > Len(ordered) THEN tm
    ELSE undo_delete_edits(
             TextModel_insert(tm, ordered[i].start_char_idx, ordered[i].deleted_text),
             ordered, i + 1)

\* edits.zip(inserted_texts): zip stops at the shorter of the two
zip_edits(record) ==
    [i \in 1..Min(Len(record.edits), Len(record.inserted_texts)) |->
        [start_char_idx |-> record.edits[i].start_char_idx,
         replaced_text |-> record.edits[i].replaced_text,
         inserted |-> record.inserted_texts[i]]]

\* The order in which apply_undo walks an Insert record's edits
undo_insert_order(record) == sort_by_start_desc(zip_edits(record))

\* A reinsertion order from the end of the buffer
undo_delete_order_descending(record) == sort_by_start_desc(record.edits)

\* ordered.sort_by(|a, b| a.start_char_idx.cmp(&b.start_char_idx)): the
\* deleted texts are put back from the start of the buffer
undo_delete_order(record) == sort_by_start_asc(record.edits)

apply_undo(b, record) ==
    IF record.kind = "Insert"
    THEN [b EXCEPT !.tm = undo_insert_edits(b.tm, undo_insert_order(record), 1),
                   !.cursors = record.before_cursors,
                   !.selections = record.before_selections,
                   !.is_dirty = TRUE]
    ELSE [b EXCEPT !.tm = undo_delete_edits(b.tm, undo_delete_order(record), 1),
                   !.cursors = record.before_cursors,
                   !.selections = record.before_selections,
                   !.is_dirty = TRUE]

\* The Insert arm's loop of apply_redo
RECURSIVE redo_insert_edits(_, _, _)
redo_insert_edits(tm, ordered, i) ==
    IF i > Len(ordered) THEN tm
    ELSE LET edit == ordered[i]
             tm1 == IF edit.replaced_text # <<>>
                    THEN TextModel_remove(tm, edit.start_char_idx, Len(edit.replaced_text))
                    ELSE tm
         IN redo_insert_edits(TextModel_insert(tm1, edit.start_char_idx, edit.inserted),
                              ordered, i + 1)

apply_redo(b, record) ==
    IF record.kind = "Insert"
    THEN [b EXCEPT !.tm = redo_insert_edits(b.tm, sort_by_start_desc(zip_edits(record)), 1),
                   !.cursors = record.after_cursors,
                   !.selections = record.after_selections,
                   !.is_dirty = TRUE]
    ELSE [apply_delete_edits(b, record.edits) EXCEPT
                   !.cursors = record.after_cursors,
                   !.selections = record.after_selections]

\* An undo that leaves is_dirty as apply_undo set it
keep_dirty_when_empty(b) == b

\* if self.undo_stack.is_empty() { self.is_dirty = false; }
clear_dirty_when_empty(b) ==
    IF b.undo_stack = <<>> THEN [b EXCEPT !.is_dirty = FALSE] ELSE b

\* An undo that drops the entry instead of moving it to the redo stack
undo_dropping_entry(b) ==
    LET record == Last(b.undo_stack)
        b1 == [b EXCEPT !.undo_stack = Front(b.undo_stack),
                        !.undo_stack_cost = saturating_sub(b.undo_stack_cost, cost(record))]
        b2 == apply_undo(b1, record)
    IN clear_dirty_when_empty(b2)

\* Buffer::undo when the undo stack is not empty (it returns true)
undo(b) ==
    LET record == Last(b.undo_stack)
        b1 == [b EXCEPT !.undo_stack = Front(b.undo_stack),
                        !.undo_stack_cost = saturating_sub(b.undo_stack_cost, cost(record))]
        b2 == apply_undo(b1, record)
        b3 == [b2 EXCEPT !.redo_stack = Append(b2.redo_stack, record)]
    IN clear_dirty_when_empty(b3)

\* A redo that commits its entry as a new edit does: through record_operation,
\* which clears the redo stack
redo_as_commit(b) ==
    LET record == Last(b.redo_stack)
        b1 == [b EXCEPT !.redo_stack = Front(b.redo_stack)]
        b2 == apply_redo(b1, record)
    IN with_history(b2, clear_redo(push_undo_record_inner(history_of(b2), record)))

\* Buffer::redo when the redo stack is not empty (it returns true)
redo(b) ==
    LET record == Last(b.redo_stack)
        b1 == [b EXCEPT !.redo_stack = Front(b.redo_stack)]
        b2 == apply_redo(b1, record)
    IN with_history(b2, push_undo_record_inner(history_of(b2), record))

-----------------------------------------------------------------------------
(* The state machine *)

\* The Buffer the variables hold
Buf == [tm |-> text_model, cursors |-> cursors, selections |-> selections,
        is_dirty |-> is_dirty, undo_stack |-> undo_stack, redo_stack |-> redo_stack,
        undo_stack_cost |-> undo_stack_cost]

\* The variables hold Buffer b in the next state
BufBecomes(b) ==
    /\ text_model' = b.tm
    /\ cursors' = b.cursors
    /\ selections' = b.selections
    /\ is_dirty' = b.is_dirty
    /\ undo_stack' = b.undo_stack
    /\ redo_stack' = b.redo_stack
    /\ undo_stack_cost' = b.undo_stack_cost

\* The positions of a text: a line of the text and a column up to the line's
\* length, its line break not counted
line_len_no_break(rope, l) ==
    LET ln == rope_line(rope, l)
    IN IF ln # <<>> /\ Last(ln) = NL THEN Len(ln) - 1 ELSE Len(ln)

ValidPositions(rope) ==
    {Cursor(l, c) : l \in 0..(len_lines(rope) - 1), c \in 0..Len(rope)}
    \cap {p \in [line : 0..(len_lines(rope) - 1), column : 0..Len(rope)] :
             p.column <= line_len_no_break(rope, p.line)}

Caret(c) == Selection_single(Cursor(0, c))
Sel(a, e) == Selection_range(Cursor(0, a), Cursor(0, e))
Actives(sels) == [i \in 1..Len(sels) |-> sels[i].active]

\* How far each kind of run is explored: a run of typing into a new Buffer
\* without a pause, a run of typing with pauses, a run of editing a loaded
\* text with caret moves, and a run from a Buffer a unit test builds
\* origin tells how the Buffer was made: by Buffer::new or Buffer::from_text
\* alone ("constructor"), or by a unit test that then sets its fields ("tests")
TypingRun == [ops |-> MaxOps, ticks |-> 0, moves |-> 0, origin |-> "constructor"]
TimedRun == [ops |-> MaxOps - 1, ticks |-> MaxTicks, moves |-> 0, origin |-> "constructor"]
EditingRun == [ops |-> MaxOps - 3, ticks |-> 0, moves |-> MaxMoves, origin |-> "constructor"]
TestRun == [ops |-> MaxOps - 1, ticks |-> 0, moves |-> 0, origin |-> "tests"]

\* The documents a run starts from: Buffer::new(), Buffer::from_text(text),
\* and the Buffers the unit tests of buffer.rs build by assigning the
\* selection and cursor lists of a Buffer::from_text(text); with each, the
\* texts the caller inserts in that run and how far the run is explored.
InitDocs ==
    { \* Buffer::new()
      [text |-> <<>>, selections |-> <<Caret(0)>>, cursors |-> <<Cursor_zero>>,
       inputs |-> {<<"a">>, <<"b">>, <<"c">>}, run |-> TypingRun],
      [text |-> <<>>, selections |-> <<Caret(0)>>, cursors |-> <<Cursor_zero>>,
       inputs |-> {<<"a">>}, run |-> TimedRun],
      [text |-> <<>>, selections |-> <<Caret(0)>>, cursors |-> <<Cursor_zero>>,
       inputs |-> {<<>>, <<"x", NL, "y">>}, run |-> EditingRun],
      \* Buffer::from_text
      [text |-> <<"a", "b", "c">>, selections |-> <<Caret(0)>>, cursors |-> <<Cursor_zero>>,
       inputs |-> {<<"X">>, <<"Y">>}, run |-> EditingRun],
      \* multi_line_insert_updates_cursor_position
      [text |-> <<>>, selections |-> <<Caret(0)>>, cursors |-> <<Cursor_zero>>,
       inputs |-> {<<"f", "o", "o", NL, "b", "a", "r">>},
       run |-> [TestRun EXCEPT !.origin = "constructor"]],
      [text |-> <<"a", "b", NL, "c", "d">>, selections |-> <<Caret(0)>>,
       cursors |-> <<Cursor_zero>>, inputs |-> {<<NL>>}, run |-> EditingRun],
      \* overlapping_selections_are_merged_before_insert
      [text |-> <<"a", "b", "c", "d", "e", "f">>,
       selections |-> <<Sel(1, 4), Sel(2, 5)>>,
       cursors |-> Actives(<<Sel(1, 4), Sel(2, 5)>>), inputs |-> {<<"X">>},
       run |-> TestRun],
      \* the same with one selection inside the other, written backwards
      [text |-> <<"a", "b", "c", "d", "e", "f">>,
       selections |-> <<Sel(2, 3), Sel(5, 1)>>,
       cursors |-> Actives(<<Sel(2, 3), Sel(5, 1)>>), inputs |-> {<<"Y", "Z">>},
       run |-> TestRun],
      \* multi_cursor_delete_respects_each_selection, and the same with the
      \* caret one column to the left
      [text |-> <<"a", "b", "c", "d", "e", "f">>,
       selections |-> <<Caret(2), Sel(3, 5)>>,
       cursors |-> Actives(<<Caret(2), Sel(3, 5)>>), inputs |-> {}, run |-> TestRun],
      [text |-> <<"a", "b", "c", "d", "e", "f">>,
       selections |-> <<Caret(1), Sel(3, 5)>>,
       cursors |-> Actives(<<Caret(1), Sel(3, 5)>>), inputs |-> {}, run |-> TestRun],
      \* multi_cursor_forward_delete_removes_expected_characters
      [text |-> <<"a", "b", "c", "d", "e", "f">>,
       selections |-> <<Caret(1), Caret(3)>>,
       cursors |-> Actives(<<Caret(1), Caret(3)>>), inputs |-> {}, run |-> TestRun],
      \* multi_cursor_insert_keeps_unaffected_cursors
      [text |-> <<"a", "b", "c", "d">>,
       selections |-> <<Caret(1), Caret(3)>>,
       cursors |-> <<Cursor(0, 1), Cursor(0, 3), Cursor_zero>>, inputs |-> {<<"X">>},
       run |-> TestRun],
      \* multi_cursor_typing_coalesces_into_single_undo
      [text |-> <<"w", "x", "y", "z">>,
       selections |-> <<Caret(1), Caret(3)>>,
       cursors |-> Actives(<<Caret(1), Caret(3)>>), inputs |-> {<<>>, <<"a">>, <<"b">>},
       run |-> TestRun],
      \* Buffer::from_text, set_cursor and add_cursor: a caret on each line
      [text |-> <<"a", "b", NL, "c", "d">>,
       selections |-> <<Selection_single(Cursor(0, 2)), Selection_single(Cursor(1, 1))>>,
       cursors |-> <<Cursor(0, 2), Cursor(1, 1)>>, inputs |-> {},
       run |-> [TestRun EXCEPT !.origin = "constructor"]] }

\* What last.pre holds after a call whose pre-state is not recorded
NoPre == [none |-> TRUE]

\* No Buffer call is in flight
NoTask == [none |-> TRUE]

\* No BufferManager is part of the run
NoManager == [none |-> TRUE]

\* No LspClient is part of the run
NoLsp == [none |-> TRUE]

Init ==
    \E doc \in InitDocs :
        /\ text_model = TextModel_from_str(doc.text)
        /\ cursors = doc.cursors
        /\ selections = doc.selections
        /\ is_dirty = FALSE
        /\ undo_stack = <<>>
        /\ redo_stack = <<>>
        /\ undo_stack_cost = 0
        /\ now = 0
        /\ inputs = doc.inputs
        /\ budget = doc.run
        /\ last = [op |-> "new", arg |-> <<>>, ret |-> TRUE, pre |-> NoPre]
        /\ task = NoTask
        /\ clean_text = text_model.rope
        /\ manager = NoManager
        /\ lsp = NoLsp

SpendOp == budget.ops > 0 /\ budget' = [budget EXCEPT !.ops = @ - 1]
SpendMove == budget.moves > 0 /\ budget' = [budget EXCEPT !.moves = @ - 1]

\* last after an editing call: ret tells whether the call committed a record
Called(op, arg, ret) ==
    last' = [op |-> op, arg |-> arg, ret |-> ret,
             pre |-> Buf @@ [now |-> now, budget |-> budget]]

\* insert_text_at_cursor(t)
InsertTextAtCursor ==
    \E t \in inputs :
        /\ SpendOp
        /\ t = <<>> \/ ~insert_aborts(Buf)
        /\ BufBecomes(insert_text_at_cursor(Buf, t, now))
        /\ Called("insert", t, t # <<>>)
        /\ UNCHANGED <<now, inputs, task, clean_text, manager, lsp>>

\* delete_backward()
DeleteBackward ==
    /\ SpendOp
    /\ ~delete_aborts(Buf, "Backward")
    /\ BufBecomes(delete_backward(Buf, now))
    /\ Called("delete_backward", <<>>, collect_delete_edits(Buf, "Backward") # <<>>)
    /\ UNCHANGED <<now, inputs, task, clean_text, manager, lsp>>

\* delete_forward()
DeleteForward ==
    /\ SpendOp
    /\ ~delete_aborts(Buf, "Forward")
    /\ BufBecomes(delete_forward(Buf, now))
    /\ Called("delete_forward", <<>>, collect_delete_edits(Buf, "Forward") # <<>>)
    /\ UNCHANGED <<now, inputs, task, clean_text, manager, lsp>>

\* undo(): ret is the call's result
Undo ==
    /\ SpendOp
    /\ IF undo_stack # <<>>
       THEN BufBecomes(undo(Buf)) /\ Called("undo", <<>>, TRUE)
       ELSE BufBecomes(Buf) /\ Called("undo", <<>>, FALSE)
    /\ UNCHANGED <<now, inputs, task, clean_text, manager, lsp>>

\* redo(): ret is the call's result
Redo ==
    /\ SpendOp
    /\ IF redo_stack # <<>>
       THEN BufBecomes(redo(Buf)) /\ Called("redo", <<>>, TRUE)
       ELSE BufBecomes(Buf) /\ Called("redo", <<>>, FALSE)
    /\ UNCHANGED <<now, inputs, task, clean_text, manager, lsp>>

\* set_cursor(cursor), at a position of the text
SetCursor ==
    \E c \in ValidPositions(text_model.rope) :
        /\ SpendMove
        /\ cursors' = <<c>>
        /\ selections' = <<Selection_single(c)>>
        /\ last' = [op |-> "set_cursor", arg |-> c, ret |-> TRUE, pre |-> NoPre]
        /\ UNCHANGED <<text_model, is_dirty, undo_stack, redo_stack, undo_stack_cost,
                       now, inputs, task, clean_text, manager, lsp>>

\* add_cursor(cursor), at a position of the text
AddCursor ==
    \E c \in ValidPositions(text_model.rope) :
        /\ SpendMove
        /\ Len(cursors) < MaxCursors
        /\ cursors' = Append(cursors, c)
        /\ selections' = Append(selections, Selection_single(c))
        /\ last' = [op |-> "add_cursor", arg |-> c, ret |-> TRUE, pre |-> NoPre]
        /\ UNCHANGED <<text_model, is_dirty, undo_stack, redo_stack, undo_stack_cost,
                       now, inputs, task, clean_text, manager, lsp>>

\* A cursor list taken from the selection's anchor
selection_cursors_at_anchor(selection) == <<selection.anchor>>

\* self.cursors = vec![selection.active]
selection_cursors(selection) == <<selection.active>>

\* set_selection(selection): the caller extends the first selection from its
\* anchor to another position of the text, as the editor view does
SetSelection ==
    \E e \in ValidPositions(text_model.rope) :
      LET a == selections[1].anchor IN
        /\ a # e
        /\ SpendMove
        /\ selections' = <<Selection_range(a, e)>>
        /\ cursors' = selection_cursors(Selection_range(a, e))
        /\ last' = [op |-> "set_selection", arg |-> Selection_range(a, e), ret |-> TRUE,
                    pre |-> NoPre]
        /\ UNCHANGED <<text_model, is_dirty, undo_stack, redo_stack, undo_stack_cost,
                       now, inputs, task, clean_text, manager, lsp>>

\* mark_clean()
MarkClean ==
    /\ is_dirty
    /\ is_dirty' = FALSE
    /\ last' = [op |-> "mark_clean", arg |-> <<>>, ret |-> TRUE, pre |-> NoPre]
    /\ clean_text' = text_model.rope
    /\ UNCHANGED <<text_model, cursors, selections, undo_stack, redo_stack,
                   undo_stack_cost, now, inputs, budget, task, manager, lsp>>

\* A pause between two keystrokes that is shorter than the coalescing window
\* and longer than half of it, in milliseconds
ShortPause == 400

\* Time passes between two calls: a whole coalescing window, or a short pause
TickDeltas == {COALESCE_WINDOW, ShortPause}

Tick ==
    \E d \in TickDeltas :
        /\ budget.ticks > 0
        /\ budget' = [budget EXCEPT !.ticks = @ - 1]
        /\ now' = now + d
        /\ last' = [op |-> "tick", arg |-> d, ret |-> TRUE, pre |-> NoPre]
        /\ UNCHANGED <<text_model, cursors, selections, is_dirty, undo_stack, redo_stack,
                       undo_stack_cost, inputs, task, clean_text, manager, lsp>>

Next ==
    \/ InsertTextAtCursor
    \/ DeleteBackward
    \/ DeleteForward
    \/ Undo
    \/ Redo
    \/ SetCursor
    \/ AddCursor
    \/ SetSelection
    \/ MarkClean
    \/ Tick

Spec == Init /\ [][Next]_vars

-----------------------------------------------------------------------------
(* The TextModel on its own: insert, remove and replace called with any    *)
(* index, length and text on a text of up to MaxStoreLen chars.            *)

\* The texts a TextModel starts from and the texts given to insert/replace
StoreTexts == {<<>>, <<"a", "b">>, <<"a", NL, "b">>}
StoreInputs == {<<>>, <<"x">>, <<"y", "z">>}

InitStore ==
    \E t \in StoreTexts :
        /\ text_model = TextModel_from_str(t)
        /\ cursors = <<Cursor_zero>>
        /\ selections = <<Selection_single(Cursor_zero)>>
        /\ is_dirty = FALSE
        /\ undo_stack = <<>>
        /\ redo_stack = <<>>
        /\ undo_stack_cost = 0
        /\ now = 0
        /\ inputs = StoreInputs
        /\ budget = [ops |-> MaxStoreOps, ticks |-> 0, moves |-> 0, origin |-> "text_model"]
        /\ last = [op |-> "new", arg |-> <<>>, ret |-> TRUE, pre |-> NoPre]
        /\ task = NoTask
        /\ clean_text = text_model.rope
        /\ manager = NoManager
        /\ lsp = NoLsp

\* last after a TextModel call: ret tells whether the call returned
StoreCalled(op, char_idx, len, t) ==
    last' = [op |-> op, arg |-> [char_idx |-> char_idx, len |-> len, text |-> t],
             ret |-> TRUE, pre |-> [tm |-> text_model]]

StoreFrame ==
    UNCHANGED <<cursors, selections, is_dirty, undo_stack, redo_stack, undo_stack_cost,
                now, inputs, task, clean_text, manager, lsp>>

\* text_model.insert(char_idx, t)
StoreInsert ==
    \E char_idx \in 0..(Len(text_model.rope) + 1), t \in inputs :
        /\ SpendOp
        /\ Len(text_model.rope) + Len(t) <= MaxStoreLen
        /\ text_model' = TextModel_insert(text_model, char_idx, t)
        /\ StoreCalled("TextModel_insert", char_idx, 0, t)
        /\ StoreFrame

\* text_model.remove(char_idx, len)
StoreRemove ==
    \E char_idx \in 0..(Len(text_model.rope) + 1), len \in 0..MaxStoreLen :
        /\ SpendOp
        /\ text_model' = TextModel_remove(text_model, char_idx, len)
        /\ StoreCalled("TextModel_remove", char_idx, len, <<>>)
        /\ StoreFrame

\* text_model.replace(char_idx, len, t)
StoreReplace ==
    \E char_idx \in 0..(Len(text_model.rope) + 1), len \in 0..MaxStoreLen, t \in inputs :
        /\ SpendOp
        /\ Len(text_model.rope) + Len(t) <= MaxStoreLen
        /\ text_model' = TextModel_replace(text_model, char_idx, len, t)
        /\ StoreCalled("TextModel_replace", char_idx, len, t)
        /\ StoreFrame

NextStore ==
    \/ StoreInsert
    \/ StoreRemove
    \/ StoreReplace

SpecStore == InitStore /\ [][NextStore]_vars

-----------------------------------------------------------------------------
(* The Buffer's batches one TextModel call at a time.  Each TextModel      *)
(* method takes the rope's write lock for itself (self.rope.write().await  *)
(* inside insert, remove and replace) and gives it back when it returns,   *)
(* so between two calls of a Buffer's loop the lock is free.  A clone of   *)
(* the Buffer shares the Arc<TextModel> and may call get_text at any of    *)
(* these points.                                                           *)

\* Buffer calls made by the writer in one run
MaxBatchOps == 3

\* One TextModel call of a batch
StoreCall(op, char_idx, len, t) == [op |-> op, char_idx |-> char_idx, len |-> len, text |-> t]

\* The call made under one acquisition of the write lock
TextModel_call(tm, call) ==
    CASE call.op = "insert" -> TextModel_insert(tm, call.char_idx, call.text)
      [] call.op = "remove" -> TextModel_remove(tm, call.char_idx, call.len)
      [] call.op = "replace" -> TextModel_replace(tm, call.char_idx, call.len, call.text)

\* The edits insert_text_at_cursor applies, in the order of its loop
insert_edits(b, t) ==
    IF insert_returns_early(b, t) THEN <<>>
    ELSE insert_order(
             normalize_edits(b.tm,
                 sort_by_start_asc([i \in 1..Len(b.selections) |->
                                       selection_edit(b.tm, i - 1, b.selections[i])]),
                 1, <<>>))

\* The TextModel calls of insert_text_at_cursor's loop
insert_calls(b, t) ==
    LET normalized == insert_edits(b, t)
    IN [i \in 1..Len(normalized) |->
           IF normalized[i].collapsed
           THEN StoreCall("insert", normalized[i].start_char_idx, 0, t)
           ELSE StoreCall("replace", normalized[i].start_char_idx,
                          saturating_sub(normalized[i].end_char_idx,
                                         normalized[i].start_char_idx), t)]

\* The TextModel calls of apply_delete_edits' loop
delete_calls(edits) ==
    LET ordered == delete_order(edits)
    IN [i \in 1..Len(ordered) |->
           StoreCall("remove", ordered[i].start_char_idx, ordered[i].len, <<>>)]

\* The TextModel calls of apply_undo's loops
undo_calls(record) ==
    IF record.kind = "Insert"
    THEN LET ordered == undo_insert_order(record)
         IN Concat([i \in 1..Len(ordered) |->
                (IF Len(ordered[i].inserted) > 0
                 THEN <<StoreCall("remove", ordered[i].start_char_idx,
                                  Len(ordered[i].inserted), <<>>)>>
                 ELSE <<>>)
                \o
                (IF ordered[i].replaced_text # <<>>
                 THEN <<StoreCall("insert", ordered[i].start_char_idx, 0,
                                  ordered[i].replaced_text)>>
                 ELSE <<>>)])
    ELSE LET ordered == sort_by_start_asc(record.edits)
         IN [i \in 1..Len(ordered) |->
                StoreCall("insert", ordered[i].start_char_idx, 0, ordered[i].deleted_text)]

\* The TextModel calls of apply_redo's loops
redo_calls(record) ==
    IF record.kind = "Insert"
    THEN LET ordered == sort_by_start_desc(zip_edits(record))
         IN Concat([i \in 1..Len(ordered) |->
                (IF ordered[i].replaced_text # <<>>
                 THEN <<StoreCall("remove", ordered[i].start_char_idx,
                                  Len(ordered[i].replaced_text), <<>>)>>
                 ELSE <<>>)
                \o
                <<StoreCall("insert", ordered[i].start_char_idx, 0, ordered[i].inserted)>>])
    ELSE delete_calls(record.edits)

\* The Buffer a call in flight leaves when nothing else writes the text
task_result(tk) ==
    CASE tk.op = "insert" -> insert_text_at_cursor(tk.pre, tk.arg, tk.at)
      [] tk.op = "delete_backward" -> delete_backward(tk.pre, tk.at)
      [] tk.op = "delete_forward" -> delete_forward(tk.pre, tk.at)
      [] tk.op = "undo" -> IF tk.pre.undo_stack # <<>> THEN undo(tk.pre) ELSE tk.pre
      [] tk.op = "redo" -> IF tk.pre.redo_stack # <<>> THEN redo(tk.pre) ELSE tk.pre

InitBatch ==
    \E doc \in InitDocs :
        /\ text_model = TextModel_from_str(doc.text)
        /\ cursors = doc.cursors
        /\ selections = doc.selections
        /\ is_dirty = FALSE
        /\ undo_stack = <<>>
        /\ redo_stack = <<>>
        /\ undo_stack_cost = 0
        /\ now = 0
        /\ inputs = doc.inputs
        /\ budget = [doc.run EXCEPT !.ops = MaxBatchOps]
        /\ last = [op |-> "new", arg |-> <<>>, ret |-> TRUE, pre |-> NoPre]
        /\ task = NoTask
        /\ clean_text = text_model.rope
        /\ manager = NoManager
        /\ lsp = NoLsp

\* The writer enters a Buffer call: edits is the number of sub-edits of the
\* batch, calls the TextModel calls its loop is about to make, ret its result
Begin(op, arg, edits, calls, ret) ==
    /\ task = NoTask
    /\ SpendOp
    /\ task' = [op |-> op, arg |-> arg, edits |-> edits, calls |-> calls, ret |-> ret,
                pre |-> Buf, at |-> now, budget |-> budget]
    /\ UNCHANGED <<text_model, cursors, selections, is_dirty, undo_stack, redo_stack,
                   undo_stack_cost, now, inputs, last, clean_text, manager, lsp>>

BeginInsert ==
    \E t \in inputs :
        /\ t = <<>> \/ ~insert_aborts(Buf)
        /\ Begin("insert", t, Len(insert_edits(Buf, t)), insert_calls(Buf, t), t # <<>>)

BeginDeleteBackward ==
    /\ ~delete_aborts(Buf, "Backward")
    /\ LET edits == collect_delete_edits(Buf, "Backward")
       IN Begin("delete_backward", <<>>, Len(edits), delete_calls(edits), edits # <<>>)

BeginDeleteForward ==
    /\ ~delete_aborts(Buf, "Forward")
    /\ LET edits == collect_delete_edits(Buf, "Forward")
       IN Begin("delete_forward", <<>>, Len(edits), delete_calls(edits), edits # <<>>)

BeginUndo ==
    IF undo_stack # <<>>
    THEN Begin("undo", <<>>, Len(Last(undo_stack).edits), undo_calls(Last(undo_stack)), TRUE)
    ELSE Begin("undo", <<>>, 0, <<>>, FALSE)

BeginRedo ==
    IF redo_stack # <<>>
    THEN Begin("redo", <<>>, Len(Last(redo_stack).edits), redo_calls(Last(redo_stack)), TRUE)
    ELSE Begin("redo", <<>>, 0, <<>>, FALSE)

\* The next TextModel call of the loop: it takes the write lock, changes the
\* rope and gives the lock back
ApplySubEdit ==
    /\ task # NoTask
    /\ task.calls # <<>>
    /\ text_model' = TextModel_call(text_model, Head(task.calls))
    /\ task' = [task EXCEPT !.calls = Tail(@)]
    /\ UNCHANGED <<cursors, selections, is_dirty, undo_stack, redo_stack,
                   undo_stack_cost, now, inputs, budget, last, clean_text, manager, lsp>>

\* The rest of the Buffer call once its loop is over: the cursors, the
\* selections and the history
Finish ==
    /\ task # NoTask
    /\ task.calls = <<>>
    /\ BufBecomes([task_result(task) EXCEPT !.tm = text_model])
    /\ last' = [op |-> task.op, arg |-> task.arg, ret |-> task.ret,
                pre |-> task.pre @@ [now |-> task.at, budget |-> task.budget]]
    /\ task' = NoTask
    /\ UNCHANGED <<now, inputs, budget, clean_text, manager, lsp>>

\* get_text() on a clone of the Buffer: it takes the read lock, which is free
\* whenever no TextModel call is running
ReaderGetText ==
    /\ last' = [op |-> "get_text", arg |-> <<>>, ret |-> text_model.rope,
                pre |-> [task |-> task]]
    /\ UNCHANGED <<text_model, cursors, selections, is_dirty, undo_stack, redo_stack,
                   undo_stack_cost, now, inputs, budget, task, clean_text, manager, lsp>>

NextBatch ==
    \/ BeginInsert
    \/ BeginDeleteBackward
    \/ BeginDeleteForward
    \/ BeginUndo
    \/ BeginRedo
    \/ ApplySubEdit
    \/ Finish
    \/ ReaderGetText

SpecBatch == InitBatch /\ [][NextBatch]_vars

-----------------------------------------------------------------------------
(* The Buffer with a caller that also passes set_cursor a cursor that is   *)
(* not a position of the text: set_cursor stores any Cursor it is given.   *)

\* Cursors one column past the end of a line of the text
PositionsPastEnd(rope) ==
    {Cursor(l, Len(rope_line(rope, l)) + 1) : l \in 0..(len_lines(rope) - 1)}

\* set_cursor(cursor) with a cursor past the end of its line
SetCursorPastEnd ==
    \E c \in PositionsPastEnd(text_model.rope) :
        /\ SpendMove
        /\ cursors' = <<c>>
        /\ selections' = <<Selection_single(c)>>
        /\ last' = [op |-> "set_cursor", arg |-> c, ret |-> TRUE, pre |-> NoPre]
        /\ UNCHANGED <<text_model, is_dirty, undo_stack, redo_stack, undo_stack_cost,
                       now, inputs, task, clean_text, manager, lsp>>

NextStray ==
    \/ Next
    \/ SetCursorPastEnd

SpecStray == Init /\ [][NextStray]_vars

(***************************************************************************)
(* Properties.  last.pre is the buffer a call was made on; a record's      *)
(* g_before and g_after are the texts at its two history boundaries.       *)
(***************************************************************************)

EditOps == {"insert", "delete_backward", "delete_forward"}

\* The record a successful undo() took from the undo stack
Undone == Last(last.pre.undo_stack)

\* The record a successful redo() took from the redo stack
Redone == Last(last.pre.redo_stack)

\* C1: round trip.  An undo() made on the text a record left behind gives
\* back the text, cursors and selections of the boundary before the record,
\* and a redo() made on that text gives back those of the boundary after it.
C1_RoundTrip ==
    /\ (last.op = "undo" /\ last.ret /\ last.pre.tm.rope = Undone.g_after) =>
          /\ text_model.rope = Undone.g_before
          /\ cursors = Undone.before_cursors
          /\ selections = Undone.before_selections
    /\ (last.op = "redo" /\ last.ret /\ last.pre.tm.rope = Redone.g_before) =>
          /\ text_model.rope = Redone.g_after
          /\ cursors = Redone.after_cursors
          /\ selections = Redone.after_selections

\* The calls a record stands for are all made by op
CallsAre(r, op) == \A k \in 1..Len(r.g_calls) : r.g_calls[k].op = op

\* The calls a record stands for all found one collapsed selection
SingleCaret(r) ==
    \A k \in 1..Len(r.g_calls) : r.g_calls[k].carets = 1 /\ r.g_calls[k].collapsed

\* r stands for insert calls made at two or more disjoint collapsed carets
MultiCaretTyping(r) ==
    /\ r.kind = "Insert"
    /\ CallsAre(r, "insert")
    /\ \A k \in 1..Len(r.g_calls) : r.g_calls[k].carets >= 2 /\ r.g_calls[k].collapsed
    /\ \A i, j \in 1..Len(r.before_selections) :
           i # j => r.before_selections[i] # r.before_selections[j]

\* C2: multi-cursor insert undo.  When a record stands for insert calls at
\* two or more disjoint collapsed carets, one undo() gives back the text
\* before the first of them and a following redo() gives back the modified
\* text.
C2_MultiCursorInsertUndo ==
    /\ (last.op = "undo" /\ last.ret /\ MultiCaretTyping(Undone)
            /\ last.pre.tm.rope = Undone.g_after) =>
          text_model.rope = Undone.g_before
    /\ (last.op = "redo" /\ last.ret /\ MultiCaretTyping(Redone)
            /\ last.pre.tm.rope = Redone.g_before) =>
          text_model.rope = Redone.g_after

\* The document of the typing example and its three texts
TypingInputs == {<<"a">>, <<"b">>, <<"c">>}
TextABC == <<"a", "b", "c">>

\* The buffer b is the empty document after "a", "b", "c" were typed into it
TypedABC(b, ops_left) ==
    /\ inputs = TypingInputs
    /\ ops_left = MaxOps - 3
    /\ b.tm.rope = TextABC

\* The buffer b is that document after one undo()
UndidABC(b, ops_left) ==
    /\ inputs = TypingInputs
    /\ ops_left = MaxOps - 4
    /\ b.tm.rope = <<>>
    /\ Len(b.redo_stack) = 1
    /\ Last(b.redo_stack).g_after = TextABC

\* The insert call last made found one caret that sits where the text of
\* the top record, typed at one caret within the window, ends
ContinuesTyping ==
    /\ last.op = "insert" /\ last.ret
    /\ last.pre.undo_stack # <<>>
    /\ LET p == last.pre
           top == Last(p.undo_stack)
       IN /\ top.kind = "Insert" /\ CallsAre(top, "insert") /\ SingleCaret(top)
          /\ Len(p.selections) = 1 /\ is_collapsed(p.selections[1])
          /\ cursor_char_index(p.tm, p.selections[1].active)
                 = top.edits[1].start_char_idx + Len(top.inserted_texts[1])
          /\ p.now - top.timestamp <= COALESCE_WINDOW

\* C3: typing coalescing.  A single-caret insert that continues the top
\* record's typing within the window is merged into that record; and on the
\* empty document "a", "b", "c" give "abc" in one undo entry, one undo()
\* gives "", a second undo() returns false and one redo() gives "abc".
C3_TypingCoalesces ==
    /\ ContinuesTyping =>
          /\ Len(undo_stack) = Len(last.pre.undo_stack)
          /\ Front(undo_stack) = Front(last.pre.undo_stack)
          /\ Last(undo_stack).inserted_texts
                 = <<Last(last.pre.undo_stack).inserted_texts[1] \o last.arg>>
    /\ TypedABC(Buf, budget.ops) => Len(undo_stack) = 1 /\ redo_stack = <<>>
    /\ (last.op = "undo" /\ TypedABC(last.pre, last.pre.budget.ops)) =>
          last.ret /\ text_model.rope = <<>> /\ undo_stack = <<>>
    /\ (last.op = "undo" /\ UndidABC(last.pre, last.pre.budget.ops)) =>
          ~last.ret /\ text_model.rope = <<>>
    /\ (last.op = "redo" /\ UndidABC(last.pre, last.pre.budget.ops)) =>
          last.ret /\ text_model.rope = TextABC

\* C3's case: the redo() that brings "abc" back after the single undo()
C3_Witness ==
    /\ last.op = "redo" /\ last.ret
    /\ UndidABC(last.pre, last.pre.budget.ops)
    /\ text_model.rope = TextABC
    /\ Len(Last(undo_stack).g_calls) = 3

\* The calls of all the records of a stack, oldest first
AllCalls(stack) == Concat([i \in 1..Len(stack) |-> stack[i].g_calls])

\* Every record of the stack stands for insert calls only
CallsAreInserts(stack) == \A i \in 1..Len(stack) : CallsAre(stack[i], "insert")

\* Two calls next to each other in calls are more than the window apart
HasGap(calls) ==
    \E k \in 1..(Len(calls) - 1) : calls[k + 1].at - calls[k].at > COALESCE_WINDOW

\* The edit last committed came more than the window after the top record
CommittedAfterGap ==
    /\ last.op \in EditOps /\ last.ret
    /\ last.pre.undo_stack # <<>>
    /\ last.pre.now - Last(last.pre.undo_stack).timestamp > COALESCE_WINDOW

\* C4: non-merge across the window.  An edit committed more than 750 ms
\* after the top record's timestamp is pushed as a record of its own, so
\* inserts with such a gap between two of them lie in two or more records.
C4_GapSeparates ==
    /\ CommittedAfterGap =>
          /\ Len(undo_stack) = Len(last.pre.undo_stack) + 1
          /\ Front(undo_stack) = last.pre.undo_stack
          /\ Last(undo_stack).timestamp = last.pre.now
          /\ Len(Last(undo_stack).g_calls) = 1
    /\ (CallsAreInserts(undo_stack) /\ HasGap(AllCalls(undo_stack))) =>
          Len(undo_stack) >= 2

\* C4's case: three inserts, the third after a gap, in two records
C4_Witness ==
    /\ CommittedAfterGap
    /\ last.op = "insert"
    /\ Len(AllCalls(undo_stack)) = 3
    /\ Len(undo_stack) = 2

\* r stands for backspaces of one caret, each deleting the character
\* immediately left of the one deleted before it
BackspaceRun(r) ==
    /\ r.kind = "Delete"
    /\ CallsAre(r, "delete_backward")
    /\ SingleCaret(r)
    /\ \A k \in 1..(Len(r.g_calls) - 1) :
           r.g_calls[k + 1].starts[1] + 1 = r.g_calls[k].starts[1]

\* The delete_backward call last made found one caret right where the
\* backspaces of the top record had arrived, within the window
ContinuesBackspacing ==
    /\ last.op = "delete_backward" /\ last.ret
    /\ last.pre.undo_stack # <<>>
    /\ LET p == last.pre
           top == Last(p.undo_stack)
       IN /\ BackspaceRun(top)
          /\ Len(p.selections) = 1 /\ is_collapsed(p.selections[1])
          /\ cursor_char_index(p.tm, p.selections[1].active)
                 = Last(top.g_calls).starts[1]
          /\ p.now - top.timestamp <= COALESCE_WINDOW

\* C5: backspace coalescing.  A single-caret delete_backward that deletes
\* the character immediately left of the top record's last deletion, within
\* the window, is merged into that record, whose deleted text stays in the
\* order of the document; and one undo() of such a record restores the text
\* from before its first backspace.
C5_BackspaceCoalesces ==
    /\ ContinuesBackspacing =>
          LET p == last.pre
              top == Last(p.undo_stack)
              idx == cursor_char_index(p.tm, p.selections[1].active)
          IN /\ Len(undo_stack) = Len(p.undo_stack)
             /\ Front(undo_stack) = Front(p.undo_stack)
             /\ Len(Last(undo_stack).edits) = 1
             /\ Last(undo_stack).edits[1].start_char_idx = idx - 1
             /\ Last(undo_stack).edits[1].deleted_text
                    = <<p.tm.rope[idx]>> \o top.edits[1].deleted_text
    /\ (last.op = "undo" /\ last.ret /\ BackspaceRun(Undone)
            /\ last.pre.tm.rope = Undone.g_after) =>
          /\ text_model.rope = Undone.g_before
          /\ undo_stack = Front(last.pre.undo_stack)

\* C5's case: one undo() of a record that stands for two backspaces
C5_Witness ==
    /\ last.op = "undo" /\ last.ret
    /\ BackspaceRun(Undone)
    /\ Len(Undone.g_calls) = 2
    /\ text_model.rope = Undone.g_before

\* C6: every insert or delete that records a history entry, merged into the
\* top record or pushed as a new one, leaves the redo stack empty, and a
\* redo() called on an empty redo stack returns false and changes nothing.
C6_CommitClearsRedo ==
    /\ (last.op \in EditOps /\ last.ret) => redo_stack = <<>>
    /\ (last.op = "redo" /\ last.pre.redo_stack = <<>>) =>
          /\ ~last.ret
          /\ text_model = last.pre.tm
          /\ undo_stack = last.pre.undo_stack
          /\ redo_stack = <<>>

\* C6's case: an edit made after an undo() and merged into the top record
C6_Witness ==
    /\ last.op \in EditOps /\ last.ret
    /\ last.pre.redo_stack # <<>>
    /\ Len(undo_stack) = Len(last.pre.undo_stack)
    /\ redo_stack = <<>>

\* The char range [start, end) of a selection over the text of tm
RangeOf(tm, sel) ==
    [start |-> cursor_char_index(tm, Selection_start(sel)),
     end |-> cursor_char_index(tm, Selection_end(sel))]

\* The insert call last made found two selections whose char ranges overlap
InsertedOverOverlap ==
    /\ last.op = "insert" /\ last.ret
    /\ Len(last.pre.selections) = 2
    /\ LET r1 == RangeOf(last.pre.tm, last.pre.selections[1])
           r2 == RangeOf(last.pre.tm, last.pre.selections[2])
       IN r1.start < r2.end /\ r2.start < r1.end

\* The union of the two ranges that call found
UnionStart ==
    Min(RangeOf(last.pre.tm, last.pre.selections[1]).start,
        RangeOf(last.pre.tm, last.pre.selections[2]).start)
UnionEnd ==
    Max(RangeOf(last.pre.tm, last.pre.selections[1]).end,
        RangeOf(last.pre.tm, last.pre.selections[2]).end)

\* The insert call last made is the one of the "abcdef" example
OverlapExample ==
    /\ last.op = "insert" /\ last.arg = <<"X">>
    /\ last.pre.tm.rope = <<"a", "b", "c", "d", "e", "f">>
    /\ last.pre.selections = <<Sel(1, 4), Sel(2, 5)>>

\* C7: overlap-safe insert (text).  An insert over two selections whose char
\* ranges overlap makes one edit over their union and replaces the union by
\* one copy of the inserted text; [1,4) and [2,5) over "abcdef" with "X"
\* give "aXf".
C7_OverlapInsertText ==
    /\ InsertedOverOverlap =>
          LET old == last.pre.tm.rope
              rec == Last(undo_stack)
          IN /\ text_model.rope = SubSeq(old, 1, UnionStart) \o last.arg
                                      \o SubSeq(old, UnionEnd + 1, Len(old))
             /\ rec.kind = "Insert"
             /\ Len(rec.edits) = 1
             /\ rec.edits[1].start_char_idx = UnionStart
             /\ Len(rec.edits[1].replaced_text) = UnionEnd - UnionStart
             /\ rec.inserted_texts = <<last.arg>>
    /\ OverlapExample =>
          InsertedOverOverlap /\ text_model.rope = <<"a", "X", "f">>

\* C7's case: the "abcdef" example has been run
C7_Witness ==
    /\ OverlapExample
    /\ InsertedOverOverlap
    /\ text_model.rope = <<"a", "X", "f">>

\* C8: overlap-safe insert (caret).  After an insert over two overlapping
\* selections the buffer holds one caret, collapsed, right after the inserted
\* text; column 2 in the "abcdef" example.
C8_OverlapInsertCaret ==
    /\ InsertedOverOverlap =>
          /\ Len(cursors) = 1
          /\ selections = <<Selection_single(cursors[1])>>
          /\ cursor_char_index(text_model, cursors[1]) = UnionStart + Len(last.arg)
    /\ OverlapExample => cursors = <<Cursor(0, 2)>>

\* The delete_backward call last made is the one of the example: "abcdef",
\* a caret at column 1 and the selection [3,5)
DeleteExample ==
    /\ last.op = "delete_backward"
    /\ last.pre.tm.rope = <<"a", "b", "c", "d", "e", "f">>
    /\ last.pre.selections = <<Caret(1), Sel(3, 5)>>
    /\ last.pre.cursors = <<Cursor(0, 1), Cursor(0, 5)>>

DeletedAtCaretAndSelection ==
    /\ last.op = "delete_backward"
    /\ Len(last.pre.selections) = 2 /\ Len(last.pre.cursors) = 2
    /\ LET caret == last.pre.selections[1]
           sel == last.pre.selections[2]
       IN /\ is_collapsed(caret) /\ ~is_collapsed(sel)
          /\ caret.active.line = 0
          /\ Selection_start(sel).line = 0 /\ Selection_end(sel).line = 0
          /\ 0 < caret.active.column
          /\ caret.active.column < Selection_start(sel).column
          /\ Selection_end(sel).column <= Len(last.pre.tm.rope)

\* C10: multi-cursor backward delete respects each selection.  The call
\* removes the character before the caret and exactly the selected range;
\* the first caret ends one column left of where it was and the second at
\* the start of its range in the resulting text, one column left of where
\* the range started: column 2 for caret (0,2) and [3,5) over "abcdef".
C10_DeleteRespectsSelections ==
    /\ DeletedAtCaretAndSelection =>
          LET old == last.pre.tm.rope
              c == last.pre.selections[1].active.column
              s == Selection_start(last.pre.selections[2]).column
              e == Selection_end(last.pre.selections[2]).column
          IN /\ text_model.rope = SubSeq(old, 1, c - 1) \o SubSeq(old, c + 1, s)
                                      \o SubSeq(old, e + 1, Len(old))
             /\ cursors = <<Cursor(0, c - 1), Cursor(0, s - 1)>>
    /\ ( /\ last.op = "delete_backward"
         /\ last.pre.tm.rope = <<"a", "b", "c", "d", "e", "f">>
         /\ last.pre.selections = <<Caret(2), Sel(3, 5)>> ) =>
          cursors[2] = Cursor(0, 2)

\* rope without the chars at the 0-based indices of S
RECURSIVE KeepExcept(_, _, _)
KeepExcept(rope, S, i) ==
    IF i > Len(rope) THEN <<>>
    ELSE (IF (i - 1) \in S THEN <<>> ELSE <<rope[i]>>) \o KeepExcept(rope, S, i + 1)

\* The delete_forward call last made found two or more collapsed carets, at
\* different places of the text and none of them at the end of its line
ForwardDeletedAtCarets ==
    /\ last.op = "delete_forward"
    /\ Len(last.pre.selections) >= 2
    /\ \A i \in 1..Len(last.pre.selections) :
          LET sel == last.pre.selections[i]
          IN /\ is_collapsed(sel)
             /\ sel.active.line < len_lines(last.pre.tm.rope)
             /\ sel.active.column < line_len_no_break(last.pre.tm.rope, sel.active.line)
    /\ \A i, j \in 1..Len(last.pre.selections) :
          i # j => last.pre.selections[i] # last.pre.selections[j]

\* C11: multi-cursor forward delete.  delete_forward() at several disjoint
\* collapsed carets, none at the end of its line, removes the char at each
\* caret's char index of the text before the call and nothing else, and
\* every caret keeps its (line, column); "abcdef" with carets at columns 1
\* and 3 gives "acef" with carets at columns 1 and 3.
C11_ForwardDeleteAtCarets ==
    /\ ForwardDeletedAtCarets =>
          LET p == last.pre
              at == {cursor_char_index(p.tm, p.selections[i].active) :
                        i \in 1..Len(p.selections)}
          IN /\ last.ret
             /\ text_model.rope = KeepExcept(p.tm.rope, at, 1)
             /\ selections = p.selections
             /\ \A i \in 1..Len(p.selections) :
                    i <= Len(cursors) => cursors[i] = p.selections[i].active
             /\ Len(cursors) = Len(p.cursors)
    /\ ( /\ last.op = "delete_forward"
         /\ last.pre.tm.rope = <<"a", "b", "c", "d", "e", "f">>
         /\ last.pre.selections = <<Caret(1), Caret(3)>> ) =>
          /\ text_model.rope = <<"a", "c", "e", "f">>
          /\ cursors = <<Cursor(0, 1), Cursor(0, 3)>>

\* C11's case: the "abcdef" example has been run
C11_Witness ==
    /\ ForwardDeletedAtCarets
    /\ last.pre.tm.rope = <<"a", "b", "c", "d", "e", "f">>
    /\ last.pre.selections = <<Caret(1), Caret(3)>>
    /\ text_model.rope = <<"a", "c", "e", "f">>

\* The number of line breaks of a text and of chars after its last one
BreakCount(t) == Len(SelectSeq(t, LAMBDA ch : ch = NL))
RECURSIVE CharsAfterLastBreak(_)
CharsAfterLastBreak(t) ==
    IF t = <<>> \/ Last(t) = NL THEN 0 ELSE 1 + CharsAfterLastBreak(Front(t))

\* The caret the rule gives a selection that started at c
RuleCaret(c, t) ==
    IF BreakCount(t) = 0
    THEN Cursor(c.line, c.column + Len(t))
    ELSE Cursor(c.line + BreakCount(t), CharsAfterLastBreak(t))

FooBar == <<"f", "o", "o", NL, "b", "a", "r">>

\* C12: post-insert caret rule.  After an insert of a non-empty text every
\* selection is collapsed at (c.line, c.column + chars(text)) when the text
\* has no line break and at (c.line + k, chars after the last break) when it
\* has k >= 1, c being the selection's start before the call, and its cursor
\* is there too; "foo\nbar" typed into an empty buffer moves the caret from
\* (0,0) to (1,3).
C12_PostInsertCaret ==
    /\ (last.op = "insert" /\ last.ret) =>
          /\ Len(selections) = Len(last.pre.selections)
          /\ Len(cursors) = Len(last.pre.cursors)
          /\ \A i \in 1..Len(last.pre.selections) :
                LET caret == RuleCaret(Selection_start(last.pre.selections[i]), last.arg)
                IN /\ selections[i] = Selection_single(caret)
                   /\ i <= Len(cursors) => cursors[i] = caret
    /\ ( /\ last.op = "insert" /\ last.arg = FooBar
         /\ last.pre.tm.rope = <<>>
         /\ last.pre.cursors = <<Cursor_zero>> ) =>
          /\ cursors = <<Cursor(1, 3)>>
          /\ text_model.rope = FooBar
          /\ len_lines(text_model.rope) = 2

\* C12's case: "foo\nbar" has been typed into the empty buffer
C12_Witness ==
    /\ last.op = "insert" /\ last.arg = FooBar
    /\ last.pre.tm.rope = <<>>
    /\ cursors = <<Cursor(1, 3)>>

\* The buffer is as it was before the call last made
SameBuffer ==
    /\ text_model = last.pre.tm
    /\ cursors = last.pre.cursors
    /\ selections = last.pre.selections
    /\ is_dirty = last.pre.is_dirty
    /\ undo_stack = last.pre.undo_stack
    /\ redo_stack = last.pre.redo_stack
    /\ undo_stack_cost = last.pre.undo_stack_cost

BufferOps == EditOps \cup {"undo", "redo"}

\* C15: the version never decreases and is never reset, over insert, delete,
\* undo and redo (which call TextModel insert, remove and replace); it is
\* greater after every call that changed the text, undo included.
C15_VersionMonotone ==
    last.op \in BufferOps =>
        /\ text_model.version >= last.pre.tm.version
        /\ text_model.rope # last.pre.tm.rope =>
               text_model.version > last.pre.tm.version

\* C15's case: an undo() has given an earlier text back under a later version
C15_Witness ==
    /\ last.op = "undo" /\ last.ret
    /\ text_model.rope = Undone.g_before
    /\ text_model.rope # last.pre.tm.rope
    /\ text_model.version > last.pre.tm.version

StoreOps == {"TextModel_insert", "TextModel_remove", "TextModel_replace"}

\* C16: a TextModel insert of an empty text at an index of the text does not
\* increment the version.
C16_EmptyInsertKeepsVersion ==
    ( /\ last.op = "TextModel_insert"
      /\ last.arg.text = <<>>
      /\ last.arg.char_idx <= Len(last.pre.tm.rope) ) =>
        text_model.version = last.pre.tm.version

\* C17: TextModel bounds handling.  insert past the length and remove at or
\* past the length return and leave the text and the version as they were;
\* remove(idx, len) with idx below the length removes the chars of
\* [idx, min(idx + len, length)) and nothing else and adds 1 to the version.
C17_StoreBounds ==
    /\ last.op \in StoreOps => last.ret
    /\ (last.op = "TextModel_insert" /\ last.arg.char_idx > Len(last.pre.tm.rope)) =>
          text_model = last.pre.tm
    /\ (last.op = "TextModel_remove" /\ last.arg.char_idx >= Len(last.pre.tm.rope)) =>
          text_model = last.pre.tm
    /\ (last.op = "TextModel_remove" /\ last.arg.char_idx < Len(last.pre.tm.rope)) =>
          LET old == last.pre.tm.rope
              idx == last.arg.char_idx
              gone == idx..(Min(idx + last.arg.len, Len(old)) - 1)
          IN /\ text_model.rope = KeepExcept(old, gone, 1)
             /\ text_model.version = last.pre.tm.version + 1

\* C17's case: a remove whose range ends past the text
C17_Witness ==
    /\ last.op = "TextModel_remove"
    /\ last.arg.char_idx > 0
    /\ last.arg.char_idx < Len(last.pre.tm.rope)
    /\ last.arg.char_idx + last.arg.len > Len(last.pre.tm.rope)
    /\ text_model.rope = SubSeq(last.pre.tm.rope, 1, last.arg.char_idx)

\* C18: replace(idx, len, text) gives the same text as remove(idx, len)
\* followed by insert(idx, text) on the same starting text, for every idx,
\* the length of the text included.
C18_ReplaceIsRemoveInsert ==
    last.op = "TextModel_replace" =>
        text_model.rope =
            TextModel_insert(TextModel_remove(last.pre.tm, last.arg.char_idx, last.arg.len),
                             last.arg.char_idx, last.arg.text).rope

\* The cursor list and the selection list are aligned
Aligned ==
    /\ cursors # <<>>
    /\ selections # <<>>
    /\ Len(cursors) = Len(selections)
    /\ \A i \in 1..Len(cursors) : cursors[i] = selections[i].active

-----------------------------------------------------------------------------
\* The calls of a batch, made one after another, leave the text the Buffer
\* call leaves as a whole
BatchAgrees ==
    (task # NoTask /\ task.calls = <<>>) => text_model = task_result(task).tm

\* A read made while a batch of two or more sub-edits was in flight
ReadDuringBatch ==
    /\ last.op = "get_text"
    /\ last.pre.task # NoTask
    /\ last.pre.task.edits >= 2

\* C19: a reader of the TextModel that reads while a batch of two or more
\* sub-edits (insert_text_at_cursor, delete_backward, delete_forward, undo,
\* redo) is in flight gets the text before the whole batch or the text after
\* the whole batch, never a text with only some of the sub-edits applied
C19_BatchAtomic ==
    ReadDuringBatch =>
        \/ last.ret = last.pre.task.pre.tm.rope
        \/ last.ret = task_result(last.pre.task).tm.rope


-----------------------------------------------------------------------------
\* C21: is_dirty is true if and only if the text differs from the text at
\* the last mark_clean(), or from the text at construction when mark_clean()
\* was never called
C21_DirtyIffChanged == is_dirty <=> (text_model.rope # clean_text)


-----------------------------------------------------------------------------
-----------------------------------------------------------------------------
\* Every selection of b is a caret whose char index, line start plus column,
\* is past the text
CaretPastEnd(b) ==
    \A i \in 1..Len(b.selections) :
        /\ is_collapsed(b.selections[i])
        /\ cursor_char_index(b.tm, b.selections[i].active) > Len(b.tm.rope)

\* C23: insert_text_at_cursor with a text that is not empty, made when a
\* caret's char index is greater than the length of the text, is a no-op:
\* the text, the cursors, the selections, is_dirty and both stacks are as
\* they were
C23_InvalidRangeNoOp ==
    (last.op = "insert" /\ last.arg # <<>> /\ CaretPastEnd(last.pre)) => SameBuffer


-----------------------------------------------------------------------------
\* The char indices of b's selections, line start plus column of the active end
CaretIndices(b) ==
    {cursor_char_index(b.tm, b.selections[i].active) : i \in 1..Len(b.selections)}

\* b has several carets, all collapsed, at char indices that differ
DisjointCarets(b) ==
    /\ Len(b.selections) >= 2
    /\ \A i \in 1..Len(b.selections) : is_collapsed(b.selections[i])
    /\ Cardinality(CaretIndices(b)) = Len(b.selections)

\* rope with one copy of t put in at each char index of S
InsertedAtEach(rope, S, t) ==
    Concat([i \in 1..(Len(rope) + 1) |->
               (IF (i - 1) \in S THEN t ELSE <<>>)
               \o (IF i <= Len(rope) THEN <<rope[i]>> ELSE <<>>)])

\* Cursor entries that have no selection are as they were before the call
SpareCursorsKept ==
    /\ Len(cursors) = Len(last.pre.cursors)
    /\ \A i \in (Len(last.pre.selections) + 1)..Len(last.pre.cursors) :
           cursors[i] = last.pre.cursors[i]

-----------------------------------------------------------------------------
\* The last call committed a record inside the coalescing window of the top
\* entry and the record was pushed as a new entry: try_merge refused it
MergeRefused ==
    /\ last.op \in EditOps /\ last.ret
    /\ last.pre.undo_stack # <<>>
    /\ within_window(last.pre.now, Last(last.pre.undo_stack).timestamp)
    /\ Len(undo_stack) = Len(last.pre.undo_stack) + 1

\* C25: a refused merge leaves the top entry (its edits, texts and cursor
\* snapshots) and the recorded cost of the entries that were on the stack as
\* they were before the attempt
C25_FailedMergePure ==
    MergeRefused =>
        /\ undo_stack[Len(undo_stack) - 1] = Last(last.pre.undo_stack)
        /\ undo_stack_cost = last.pre.undo_stack_cost + cost(Last(undo_stack))


\* The history after trim_undo_stack, had the recorded cost been over the
\* budget by more than the entries' own costs
EvictedHistory ==
    trim_undo_stack([history_of(Buf) EXCEPT
        !.undo_stack_cost = UNDO_STACK_BUDGET_BYTES + 1 + undo_stack_cost])

\* C26: a dirty Buffer has a non-empty undo stack; an undo that empties the
\* stack leaves is_dirty false, and so does an eviction that empties it
C26_DirtyImpliesHistory ==
    /\ is_dirty => undo_stack # <<>>
    /\ (last.op = "undo" /\ undo_stack = <<>>) => ~is_dirty
    /\ EvictedHistory.undo_stack = <<>> => ~EvictedHistory.is_dirty

\* undo() has just emptied the undo stack of a dirty Buffer
C26_Witness ==
    /\ last.op = "undo" /\ last.ret
    /\ last.pre.is_dirty
    /\ undo_stack = <<>>


-----------------------------------------------------------------------------
\* The Buffer has one collapsed caret, at column 0 of a line after the first
CaretAtLineStart(b) ==
    /\ Len(b.selections) = 1 /\ Len(b.cursors) = 1
    /\ is_collapsed(b.selections[1])
    /\ b.selections[1].active.column = 0
    /\ b.selections[1].active.line > 0
    /\ b.selections[1].active.line < len_lines(b.tm.rope)

\* C27: delete_backward with the caret at column 0 of line L > 0 removes the
\* line break that ends line L-1 and puts the caret at (L-1, n), n being the
\* number of chars of line L-1 without its line break
C27_LineJoinBackspace ==
    (last.op = "delete_backward" /\ CaretAtLineStart(last.pre)) =>
        LET L == last.pre.selections[1].active.line
            line_start == line_to_char(last.pre.tm.rope, L)
            n == line_len_no_break(last.pre.tm.rope, L - 1)
        IN /\ last.pre.tm.rope[line_start] = NL
           /\ text_model.rope = SubSeq(last.pre.tm.rope, 1, line_start - 1)
                                \o SubSeq(last.pre.tm.rope, line_start + 1,
                                          Len(last.pre.tm.rope))
           /\ cursors = <<Cursor(L - 1, n)>>
           /\ selections = <<Selection_single(Cursor(L - 1, n))>>


-----------------------------------------------------------------------------
\* The Buffer has one collapsed caret, at the end of a line of the text
CaretAtLineEnd(b) ==
    /\ Len(b.selections) = 1 /\ Len(b.cursors) = 1
    /\ is_collapsed(b.selections[1])
    /\ b.cursors[1] = b.selections[1].active
    /\ b.selections[1].active.line < len_lines(b.tm.rope)
    /\ b.selections[1].active.column =
           line_len_no_break(b.tm.rope, b.selections[1].active.line)

\* C28: delete_forward with the caret at the end of a line that is not the
\* last removes the line break after the caret and leaves the caret where it
\* is; at the end of the last line it changes nothing: no edit, no history
\* entry, no new version
C28_ForwardDeleteBoundaries ==
    (last.op = "delete_forward" /\ CaretAtLineEnd(last.pre)) =>
        LET caret == last.pre.selections[1].active
            idx == cursor_char_index(last.pre.tm, caret)
        IN IF caret.line + 1 < len_lines(last.pre.tm.rope)
           THEN /\ last.pre.tm.rope[idx + 1] = NL
                /\ text_model.rope = SubSeq(last.pre.tm.rope, 1, idx)
                                     \o SubSeq(last.pre.tm.rope, idx + 2,
                                               Len(last.pre.tm.rope))
                /\ cursors = <<caret>>
                /\ selections = <<Selection_single(caret)>>
           ELSE /\ ~last.ret
                /\ SameBuffer

\* delete_forward has removed the line break at the caret
C28_Witness ==
    /\ last.op = "delete_forward" /\ CaretAtLineEnd(last.pre)
    /\ last.pre.selections[1].active.line + 1 < len_lines(last.pre.tm.rope)
    /\ len_lines(text_model.rope) = len_lines(last.pre.tm.rope) - 1


-----------------------------------------------------------------------------
\* The edits of the record insert_text_at_cursor builds from Buffer b
InsertRecordEdits(b) ==
    LET edits == [i \in 1..Len(b.selections) |->
                     selection_edit(b.tm, i - 1, b.selections[i])]
    IN insert_order(normalize_edits(b.tm, sort_by_start_asc(edits), 1, <<>>))

\* The last call left the undo stack as long as it was: its record went into
\* the top entry
MergedIntoTop == Len(undo_stack) = Len(last.pre.undo_stack)

\* C29: an Insert record is merged into the top entry only if the top entry is
\* an Insert record with the same number of edits, no edit of either record
\* replaced text, and each new edit starts at the top edit's start plus the
\* length of its inserted text; otherwise (a Delete record on top included)
\* the record is pushed as a separate entry on top of the unchanged stack
C29_InsertMergeCompatibility ==
    (last.op = "insert" /\ last.ret) =>
        LET new == InsertRecordEdits(last.pre)
            top == Last(last.pre.undo_stack)
        IN /\ MergedIntoTop =>
                /\ last.pre.undo_stack # <<>>
                /\ top.kind = "Insert"
                /\ Len(top.edits) = Len(new)
                /\ \A i \in 1..Len(new) :
                      /\ top.edits[i].replaced_text = <<>>
                      /\ new[i].replaced_text = <<>>
                      /\ new[i].start_char_idx =
                             top.edits[i].start_char_idx + Len(top.inserted_texts[i])
           /\ ~MergedIntoTop =>
                /\ Front(undo_stack) = last.pre.undo_stack
                /\ Last(undo_stack).kind = "Insert"
                /\ Len(Last(undo_stack).edits) = Len(new)
                /\ \A i \in 1..Len(new) :
                      /\ Last(undo_stack).edits[i].start_char_idx = new[i].start_char_idx
                      /\ Last(undo_stack).edits[i].replaced_text = new[i].replaced_text
                      /\ Last(undo_stack).inserted_texts[i] = last.arg
           /\ (last.pre.undo_stack # <<>> /\ top.kind = "Delete") => ~MergedIntoTop

\* A two-caret insert has been merged into the top entry
C29_Witness ==
    /\ last.op = "insert" /\ last.ret
    /\ MergedIntoTop
    /\ Len(Last(undo_stack).edits) = 2


-----------------------------------------------------------------------------
\* The direction of the last delete call
LastDirection == IF last.op = "delete_backward" THEN "Backward" ELSE "Forward"

\* Every edit of b ends where the edit of a at the same place starts
AllBackward(a, b) ==
    \A i \in 1..Len(a) :
        b[i].start_char_idx + b[i].len = a[i].start_char_idx

\* Every edit of a ends where the edit of b at the same place starts
AllForward(a, b) ==
    \A i \in 1..Len(a) :
        a[i].start_char_idx + a[i].len = b[i].start_char_idx

\* C30: a Delete record is merged into the top entry only if the top entry is
\* a Delete record with the same number of edits, each pair of edits has the
\* same selection index, and all pairs are adjacent in one direction; a
\* record that does not fit is pushed as a separate entry
C30_DeleteMergeDirection ==
    (last.op \in {"delete_backward", "delete_forward"} /\ last.ret) =>
        LET new == collect_delete_edits(last.pre, LastDirection)
            top == Last(last.pre.undo_stack)
        IN /\ MergedIntoTop =>
                /\ last.pre.undo_stack # <<>>
                /\ top.kind = "Delete"
                /\ Len(top.edits) = Len(new)
                /\ \A i \in 1..Len(new) : top.edits[i].index = new[i].index
                /\ AllBackward(top.edits, new) \/ AllForward(top.edits, new)
           /\ ~MergedIntoTop =>
                /\ Len(undo_stack) = Len(last.pre.undo_stack) + 1
                /\ Last(undo_stack).kind = "Delete"
                /\ Last(undo_stack).edits = new

\* A two-caret delete has been merged into the top entry
C30_Witness ==
    /\ last.op \in {"delete_backward", "delete_forward"} /\ last.ret
    /\ MergedIntoTop
    /\ Len(Last(undo_stack).edits) = 2


-----------------------------------------------------------------------------
\* C31: redo() on a non-empty redo stack pops its top entry, replays it (the
\* cursors and selections are the entry's after lists and the Buffer is
\* dirty), pushes it on the undo stack with its cost added, and leaves the
\* other redo entries in place
C31_RedoMovesTopEntry ==
    (last.op = "redo" /\ last.ret) =>
        LET record == Last(last.pre.redo_stack)
        IN /\ redo_stack = Front(last.pre.redo_stack)
           /\ undo_stack = Append(last.pre.undo_stack, record)
           /\ undo_stack_cost = last.pre.undo_stack_cost + cost(record)
           /\ undo_stack_cost <= UNDO_STACK_BUDGET_BYTES
           /\ cursors = record.after_cursors
           /\ selections = record.after_selections
           /\ is_dirty

\* redo() has replayed one entry and another entry is still on the redo stack
C31_Witness ==
    /\ last.op = "redo" /\ last.ret
    /\ Len(last.pre.redo_stack) = 2
    /\ redo_stack # <<>>


-----------------------------------------------------------------------------
\* record is the record of one delete call that applied two or more edits,
\* no two of which share a char
MultiDeleteRecord(record) ==
    /\ record.kind = "Delete"
    /\ Len(record.g_calls) = 1
    /\ Len(record.edits) >= 2
    /\ \A i, j \in 1..Len(record.edits) :
          i < j => \/ record.edits[i].start_char_idx + record.edits[i].len
                          <= record.edits[j].start_char_idx
                   \/ record.edits[j].start_char_idx + record.edits[j].len
                          <= record.edits[i].start_char_idx

\* C32: undo() of a delete that applied two or more pairwise disjoint edits
\* restores the text, the cursors and the selections from before the delete,
\* and a redo() right after it gives the text and the cursors from after it
C32_MultiDeleteRoundTrip ==
    /\ (last.op = "undo" /\ last.ret /\ MultiDeleteRecord(Last(redo_stack))
        /\ last.pre.tm.rope = Last(redo_stack).g_after) =>
           /\ text_model.rope = Last(redo_stack).g_before
           /\ cursors = Last(redo_stack).before_cursors
           /\ selections = Last(redo_stack).before_selections
    /\ (last.op = "redo" /\ last.ret /\ MultiDeleteRecord(Last(undo_stack))
        /\ last.pre.tm.rope = Last(undo_stack).g_before) =>
           /\ text_model.rope = Last(undo_stack).g_after
           /\ cursors = Last(undo_stack).after_cursors
           /\ selections = Last(undo_stack).after_selections

\* A two-caret delete has been undone and done again
C32_Witness ==
    /\ last.op = "redo" /\ last.ret /\ MultiDeleteRecord(Last(undo_stack))
    /\ last.pre.tm.rope = Last(undo_stack).g_before
    /\ text_model.rope # last.pre.tm.rope


-----------------------------------------------------------------------------
\* C33: every cursor is a valid position of the current text: its line is a
\* line of the text and its column is at most the number of chars of that
\* line, the line break not counted
C33_CursorsValid ==
    \A i \in 1..Len(cursors) : cursors[i] \in ValidPositions(text_model.rope)


-----------------------------------------------------------------------------
\* b has two or more collapsed carets at different, valid positions of one line
CaretsOnOneLine(b) ==
    /\ DisjointCarets(b)
    /\ Len(b.cursors) = Len(b.selections)
    /\ \A i \in 1..Len(b.selections) :
          /\ b.selections[i].active \in ValidPositions(b.tm.rope)
          /\ b.selections[i].active.line = b.selections[1].active.line

\* The char index right after the copy of t inserted at caret i of b: the
\* caret's index, moved by one copy for each caret at or before it
AfterOwnCopy(b, i, t) ==
    LET idx(k) == cursor_char_index(b.tm, b.selections[k].active)
    IN idx(i) + Cardinality({k \in 1..Len(b.selections) : idx(k) <= idx(i)}) * Len(t)

\* C34: after insert_text_at_cursor with two or more collapsed carets on one
\* line, each caret converts to the char index right after its own inserted
\* copy of the text
C34_CaretsAfterOwnCopy ==
    (last.op = "insert" /\ last.arg # <<>> /\ CaretsOnOneLine(last.pre)) =>
        \A i \in 1..Len(last.pre.selections) :
            cursor_char_index(text_model, cursors[i]) = AfterOwnCopy(last.pre, i, last.arg)


-----------------------------------------------------------------------------
\* C35: undo_stack_cost is the sum of cost() over the entries of the undo stack
C35_CostAccounting ==
    undo_stack_cost = SumSeq([i \in 1..Len(undo_stack) |-> cost(undo_stack[i])])


-----------------------------------------------------------------------------
\* Both ends of every selection of b are valid positions of b's text
SelectionsValid(b) ==
    \A i \in 1..Len(b.selections) :
        /\ b.selections[i].anchor \in ValidPositions(b.tm.rope)
        /\ b.selections[i].active \in ValidPositions(b.tm.rope)

\* The char indices (from 0) a delete in the given direction is to remove for
\* one selection: the selected range, or the char before or after the caret
DeleteTargets(tm, selection, direction) ==
    LET idx == cursor_char_index(tm, selection.active)
    IN IF ~is_collapsed(selection)
       THEN cursor_char_index(tm, Selection_start(selection))
                ..(cursor_char_index(tm, Selection_end(selection)) - 1)
       ELSE IF direction = "Backward"
            THEN (IF idx > 0 THEN {idx - 1} ELSE {})
            ELSE (IF idx < Len(tm.rope) THEN {idx} ELSE {})

\* The union of the targets of all selections of b
DeleteUnion(b, direction) ==
    UNION {DeleteTargets(b.tm, b.selections[i], direction) : i \in 1..Len(b.selections)}

\* rope without the chars at the indices (from 0) of S
WithoutChars(rope, S) ==
    Concat([i \in 1..Len(rope) |-> IF (i - 1) \in S THEN <<>> ELSE <<rope[i]>>])

\* C36: delete_backward() and delete_forward() remove exactly the union of the
\* selected ranges and of the single chars next to the collapsed carets: the
\* text afterwards is the text before without the chars of that union
C36_DeleteRemovesUnion ==
    (last.op \in {"delete_backward", "delete_forward"} /\ SelectionsValid(last.pre)) =>
        text_model.rope = WithoutChars(last.pre.tm.rope,
                                       DeleteUnion(last.pre, LastDirection))


-----------------------------------------------------------------------------
\* C37: undoing a Delete entry that holds two or more merged deletes gives the
\* text from before the first of them, as undoing them one by one would
C37_MergedDeleteUndo ==
    (/\ last.op = "undo" /\ last.ret
     /\ Last(redo_stack).kind = "Delete"
     /\ Len(Last(redo_stack).g_calls) >= 2
     /\ last.pre.tm.rope = Last(redo_stack).g_after) =>
        text_model.rope = Last(redo_stack).g_before


-----------------------------------------------------------------------------
\* C38: a merged entry keeps the timestamp of its first edit, and an edit is
\* merged into the top entry only if it comes at most COALESCE_WINDOW after
\* that first edit; an edit that comes later is pushed as a new entry, however
\* soon it follows the entry's latest edit
C38_WindowFromFirstEdit ==
    /\ \A i \in 1..Len(undo_stack) :
          undo_stack[i].timestamp = undo_stack[i].g_calls[1].at
    /\ (last.op \in EditOps /\ last.ret /\ last.pre.undo_stack # <<>>) =>
          /\ MergedIntoTop =>
                /\ Last(undo_stack).timestamp = Last(last.pre.undo_stack).timestamp
                /\ last.pre.now - Last(last.pre.undo_stack).timestamp <= COALESCE_WINDOW
          /\ last.pre.now - Last(last.pre.undo_stack).timestamp > COALESCE_WINDOW =>
                /\ Len(undo_stack) = Len(last.pre.undo_stack) + 1
                /\ Last(undo_stack).timestamp = last.pre.now

\* A keystroke less than a window after the one before it and more than a
\* window after the first keystroke of the top entry has started a new entry
C38_Witness ==
    /\ last.op = "insert" /\ last.ret /\ last.pre.undo_stack # <<>>
    /\ Len(Last(last.pre.undo_stack).g_calls) >= 2
    /\ last.pre.now - Last(Last(last.pre.undo_stack).g_calls).at < COALESCE_WINDOW
    /\ last.pre.now - Last(last.pre.undo_stack).timestamp > COALESCE_WINDOW
    /\ Len(undo_stack) = 2


-----------------------------------------------------------------------------
(* BufferManager.  It holds two tokio RwLocks, `buffers` (the map from     *)
(* path to buffer handle) and `current_buffer` (the current path), and each *)
(* handle is a Mutex<Buffer>.  A call is a task that takes its locks one    *)
(* .await at a time and drops every guard it holds when it returns.  A lock *)
(* is granted whenever no holder conflicts with the request; tokio queues   *)
(* the waiters in order on top of that, which only makes waiting longer.    *)

\* Calls on one BufferManager that are in flight at the same time
MaxCalls == 2
\* Calls made on the BufferManager in one run
MaxManagerCalls == 4

CallIds == 1..MaxCalls
Paths == {"a.rs", "b.rs"}
NoPath == "None"
NoCall == 0

ManagerOps == {"open_file", "create_new_buffer", "close_file", "get_current_buffer",
               "set_current_buffer", "save_current_file", "get_buffer"}

IdleCall == [op |-> "idle", path |-> NoPath, pc |-> "idle"]

\* The first lock each call asks for
first_pc(op) ==
    IF op \in {"open_file", "create_new_buffer", "close_file"} THEN "buffers.write"
    ELSE IF op \in {"get_current_buffer", "save_current_file"} THEN "current.read"
    ELSE "buffers.read"

\* BufferManager::new(): no buffer, no current path, no lock held
ManagerNew ==
    [calls |-> [c \in CallIds |-> IdleCall],
     buffers |-> {},
     current_buffer |-> NoPath,
     buffers_readers |-> {},
     buffers_writer |-> NoCall,
     current_readers |-> {},
     current_writer |-> NoCall,
     buffer_holder |-> [p \in Paths |-> NoCall],
     left |-> MaxManagerCalls]

InitManager ==
    /\ text_model = TextModel_from_str(<<>>)
    /\ cursors = <<Cursor_zero>>
    /\ selections = <<Selection_single(Cursor_zero)>>
    /\ is_dirty = FALSE
    /\ undo_stack = <<>>
    /\ redo_stack = <<>>
    /\ undo_stack_cost = 0
    /\ now = 0
    /\ inputs = {}
    /\ budget = [ops |-> 0, ticks |-> 0, moves |-> 0, origin |-> "buffer_manager"]
    /\ last = [op |-> "new", arg |-> <<>>, ret |-> TRUE, pre |-> NoPre]
    /\ task = NoTask
    /\ clean_text = text_model.rope
    /\ manager = ManagerNew
    /\ lsp = NoLsp

\* The variables of the Buffer model, which a BufferManager run leaves alone
buffer_vars == <<text_model, cursors, selections, is_dirty, undo_stack, redo_stack,
                 undo_stack_cost, now, inputs, budget, task, clean_text>>

ManagerStep(m, op, path) ==
    /\ manager' = m
    /\ last' = [op |-> op, arg |-> path, ret |-> TRUE, pre |-> NoPre]
    /\ UNCHANGED <<buffer_vars, lsp>>

\* RwLock::read is granted when no writer holds the lock, RwLock::write when
\* nobody holds it
buffers_read_free(m) == m.buffers_writer = NoCall
buffers_write_free(m) == m.buffers_writer = NoCall /\ m.buffers_readers = {}
current_read_free(m) == m.current_writer = NoCall
current_write_free(m) == m.current_writer = NoCall /\ m.current_readers = {}

\* A task calls one of the seven operations; it has not reached its first
\* .await on a lock yet
ManagerCall ==
    \E c \in CallIds, op \in ManagerOps, path \in Paths :
        /\ manager.left > 0
        /\ manager.calls[c].op = "idle"
        /\ ManagerStep([manager EXCEPT !.calls[c] = [op |-> op, path |-> path,
                                                     pc |-> first_pc(op)],
                                       !.left = @ - 1],
                       op, path)

\* self.buffers.write().await in open_file (26-27), create_new_buffer (39-40)
\* and close_file (76-77), with the insert or remove that follows it
AcquireBuffersWrite ==
    \E c \in CallIds :
        LET call == manager.calls[c] IN
        /\ call.pc = "buffers.write"
        /\ buffers_write_free(manager)
        /\ ManagerStep([manager EXCEPT
               !.buffers_writer = c,
               !.buffers = IF call.op = "close_file" THEN @ \ {call.path}
                           ELSE @ \cup {call.path},
               !.calls[c].pc = "current.write"],
               call.op, call.path)

\* The values the call may assign to *current: its own path, or for
\* close_file of the current path buffers.keys().next(), any key of the map
\* (HashMap order is not specified) or None when the map is empty
current_after(m, call) ==
    IF call.op # "close_file" THEN {call.path}
    ELSE IF m.current_buffer # call.path THEN {m.current_buffer}
    ELSE IF m.buffers = {} THEN {NoPath}
    ELSE m.buffers

\* self.current_buffer.write().await in open_file (29-30), create_new_buffer
\* (42-43), close_file (79-82) and set_current_buffer (97-98), with the
\* assignment that follows it
AcquireCurrentWrite ==
    \E c \in CallIds :
        LET call == manager.calls[c] IN
        /\ call.pc = "current.write"
        /\ current_write_free(manager)
        /\ \E next_current \in current_after(manager, call) :
               ManagerStep([manager EXCEPT
                   !.current_writer = c,
                   !.current_buffer = next_current,
                   !.calls[c].pc = "return"],
                   call.op, call.path)

\* self.current_buffer.read().await in save_current_file (64) and
\* get_current_buffer (88); save_current_file goes on to save_file only when
\* there is a current path
AcquireCurrentRead ==
    \E c \in CallIds :
        LET call == manager.calls[c] IN
        /\ call.pc = "current.read"
        /\ current_read_free(manager)
        /\ ManagerStep([manager EXCEPT
               !.current_readers = @ \cup {c},
               !.calls[c].path = manager.current_buffer,
               !.calls[c].pc = IF call.op = "save_current_file"
                                  /\ manager.current_buffer = NoPath
                               THEN "return" ELSE "buffers.read"],
               call.op, manager.current_buffer)

\* self.buffers.read().await in save_file (50), get_current_buffer (89),
\* set_current_buffer (95) and get_buffer (109)
AcquireBuffersRead ==
    \E c \in CallIds :
        LET call == manager.calls[c] IN
        /\ call.pc = "buffers.read"
        /\ buffers_read_free(manager)
        /\ ManagerStep([manager EXCEPT
               !.buffers_readers = @ \cup {c},
               !.calls[c].pc =
                   IF call.op = "save_current_file" THEN "buffers.release"
                   ELSE IF call.op = "set_current_buffer" /\ call.path \in manager.buffers
                   THEN "current.write"
                   ELSE "return"],
               call.op, call.path)

\* The end of the block in save_file (49-52): the read guard on buffers is
\* dropped, the handle cloned out of the map is kept
ReleaseBuffersRead ==
    \E c \in CallIds :
        LET call == manager.calls[c] IN
        /\ call.pc = "buffers.release"
        /\ ManagerStep([manager EXCEPT
               !.buffers_readers = @ \ {c},
               !.calls[c].pc = IF call.path \in manager.buffers
                               THEN "buffer.lock" ELSE "return"],
               call.op, call.path)

\* buffer_handle.lock().await in save_file (55)
LockBuffer ==
    \E c \in CallIds :
        LET call == manager.calls[c] IN
        /\ call.pc = "buffer.lock"
        /\ manager.buffer_holder[call.path] = NoCall
        /\ ManagerStep([manager EXCEPT
               !.buffer_holder[call.path] = c,
               !.calls[c].pc = "return"],
               call.op, call.path)

\* The call returns and drops every guard it holds
ManagerReturn ==
    \E c \in CallIds :
        LET call == manager.calls[c] IN
        /\ call.pc = "return"
        /\ ManagerStep([manager EXCEPT
               !.buffers_readers = @ \ {c},
               !.current_readers = @ \ {c},
               !.buffers_writer = IF @ = c THEN NoCall ELSE @,
               !.current_writer = IF @ = c THEN NoCall ELSE @,
               !.buffer_holder = [p \in Paths |-> IF @[p] = c THEN NoCall ELSE @[p]],
               !.calls[c] = IdleCall],
               "return", call.op)

NextManager ==
    \/ ManagerCall
    \/ AcquireBuffersWrite
    \/ AcquireCurrentWrite
    \/ AcquireCurrentRead
    \/ AcquireBuffersRead
    \/ ReleaseBuffersRead
    \/ LockBuffer
    \/ ManagerReturn

SpecManager == InitManager /\ [][NextManager]_vars

\* C39 helper: call c is in flight and its next step can be taken
CanStep(m, c) ==
    LET pc == m.calls[c].pc IN
    \/ pc = "buffers.write" /\ buffers_write_free(m)
    \/ pc = "current.write" /\ current_write_free(m)
    \/ pc = "current.read" /\ current_read_free(m)
    \/ pc = "buffers.read" /\ buffers_read_free(m)
    \/ pc = "buffers.release"
    \/ pc = "buffer.lock" /\ m.buffer_holder[m.calls[c].path] = NoCall
    \/ pc = "return"

InFlight(m) == {c \in CallIds : m.calls[c].op # "idle"}

\* C39: the BufferManager is deadlock-free: whenever calls are in flight, one
\* of them can take its next step (a lock is released only by a call in
\* flight, so calls that are all waiting on each other never return)
C39_DeadlockFree ==
    InFlight(manager) # {} => \E c \in InFlight(manager) : CanStep(manager, c)

\* ---------------------------------------------------------------------------
\* LspClient: send_request against the background message processor
\* ---------------------------------------------------------------------------

\* Requests one client issues, and notifications the server sends unasked
MaxRequests == 3
MaxNotifications == 1

\* LspMessage.id of a notification, and the empty oneshot channel
NoId == 0
NoMessage == [id |-> NoId, kind |-> "none"]

IdleRequest == [pc |-> "idle", id |-> NoId, channel |-> NoMessage]

\* LspClient::new followed by start_server: the pipes are empty, the
\* processor task waits for a line, no request is pending
LspClient_new ==
    [next_request_id |-> 1,
     pending_requests |-> {},
     stdin |-> <<>>,
     stdout |-> <<>>,
     request |-> IdleRequest,
     message |-> NoMessage,
     handled |-> {},
     returned |-> {},
     notifications |-> 0]

InitLsp ==
    /\ text_model = TextModel_from_str(<<>>)
    /\ cursors = <<Cursor_zero>>
    /\ selections = <<Selection_single(Cursor_zero)>>
    /\ is_dirty = FALSE
    /\ undo_stack = <<>>
    /\ redo_stack = <<>>
    /\ undo_stack_cost = 0
    /\ now = 0
    /\ inputs = {}
    /\ budget = [ops |-> 0, ticks |-> 0, moves |-> 0, origin |-> "lsp_client"]
    /\ last = [op |-> "new", arg |-> <<>>, ret |-> TRUE, pre |-> NoPre]
    /\ task = NoTask
    /\ clean_text = text_model.rope
    /\ manager = NoManager
    /\ lsp = LspClient_new

LspStep(l, op, id, ret) ==
    /\ lsp' = l
    /\ last' = [op |-> op, arg |-> id, ret |-> ret, pre |-> NoPre]
    /\ UNCHANGED <<buffer_vars, manager>>

\* send_request up to its first await on the mutex: take the id, write the
\* request (LspMessage::new_request) to the server, create the oneshot
\* channel.  It borrows the client mutably, so one request is in flight at a
\* time.  The methods are those of initialize, request_completion and
\* request_hover
SendRequest ==
    /\ lsp.request.pc = "idle"
    /\ lsp.next_request_id <= MaxRequests
    /\ \E method \in {"initialize", "textDocument/completion", "textDocument/hover"} :
         LET request_id == lsp.next_request_id IN
         LspStep([lsp EXCEPT
                    !.next_request_id = @ + 1,
                    !.stdin = Append(@, [id |-> request_id, kind |-> method]),
                    !.request = [pc |-> "register", id |-> request_id,
                                 channel |-> NoMessage]],
                 "send_request", request_id, TRUE)

\* send_request: pending.insert(request_id, sender) under the mutex
RegisterRequest ==
    /\ lsp.request.pc = "register"
    /\ LspStep([lsp EXCEPT
                  !.pending_requests = @ \cup {lsp.request.id},
                  !.request.pc = "await"],
               "register", lsp.request.id, TRUE)

\* send_request: receiver.await completes once the sender has sent; a result
\* gives Ok, an error gives Err
ReceiveResponse ==
    /\ lsp.request.pc = "await"
    /\ lsp.request.channel # NoMessage
    /\ LspStep([lsp EXCEPT
                  !.returned = @ \cup {lsp.request.id},
                  !.request = IdleRequest],
               "return", lsp.request.id, lsp.request.channel.kind = "result")

\* The server reads a request and answers it with one response, which carries
\* the request's id and a result or an error
ServerReply ==
    /\ lsp.stdin # <<>>
    /\ \E response \in {[id |-> Head(lsp.stdin).id, kind |-> k] : k \in {"result", "error"}} :
         LspStep([lsp EXCEPT
                    !.stdin = Tail(@),
                    !.stdout = Append(@, response)],
                 "reply", response.id, response.kind = "result")

\* The server sends a notification (no id)
ServerNotify ==
    /\ lsp.notifications < MaxNotifications
    /\ LspStep([lsp EXCEPT
                  !.notifications = @ + 1,
                  !.stdout = Append(@, [id |-> NoId, kind |-> "notification"])],
               "notify", NoId, TRUE)

\* The processor task reads one framed message from the server's stdout
ReadMessage ==
    /\ lsp.message = NoMessage
    /\ lsp.stdout # <<>>
    /\ LspStep([lsp EXCEPT
                  !.message = Head(lsp.stdout),
                  !.stdout = Tail(@)],
               "read_message", Head(lsp.stdout).id, TRUE)

\* handle_message under the mutex: a message with an id is sent to the sender
\* registered under it and the entry is removed; without such an entry the
\* message is dropped.  A notification is ignored
handle_message(l) ==
    LET message == l.message
        id == message.id IN
    IF id = NoId THEN [l EXCEPT !.message = NoMessage]
    ELSE IF id \in l.pending_requests
         THEN [l EXCEPT
                 !.pending_requests = @ \ {id},
                 !.request.channel = message,
                 !.handled = @ \cup {id},
                 !.message = NoMessage]
         ELSE [l EXCEPT
                 !.handled = @ \cup {id},
                 !.message = NoMessage]

HandleMessage ==
    /\ lsp.message # NoMessage
    /\ LspStep(handle_message(lsp), "handle_message", lsp.message.id,
               lsp.message.id \in lsp.pending_requests)

NextLsp ==
    \/ SendRequest
    \/ RegisterRequest
    \/ ReceiveResponse
    \/ ServerReply
    \/ ServerNotify
    \/ ReadMessage
    \/ HandleMessage

SpecLsp == InitLsp /\ [][NextLsp]_vars

\* The response to the request in flight has been taken off the pipe and
\* handled by the processor
ResponseHandled == lsp.request.id \in lsp.handled

\* C40: no send_request waits for a response the server has already sent:
\* once the processor has handled the response carrying the id of the request
\* in flight, that response is in the request's channel, whether the response
\* was handled before or after the request was registered in pending_requests
C40_ResponseDelivered ==
    (lsp.request.pc \in {"register", "await"} /\ ResponseHandled)
        => lsp.request.channel.id = lsp.request.id

====
